---- MODULE Spec2Model ----
(***************************************************************************)
(* A model of the Squibbles ecosystem simulator.                           *)
(*                                                                         *)
(*   Part I    Food.py: slot-based food and the FoodManager     (SpecFood) *)
(*   Part II   familytree.py: the lineage graph                 (SpecTree) *)
(*   Part III  evolution_simulation_fully_integrated9.py with mutations.py:*)
(*             the main loop, Creature.update, combat, reproduction, birth *)
(*             and death                                        (Spec)     *)
(*                                                                         *)
(* Real-valued quantities are integers here.  Food times are whole seconds.*)
(* Creature health, hunger, thirst, attack, defense and speed are counted  *)
(* in hundredths (Scale); simulation time is in milliseconds.              *)
(***************************************************************************)
EXTENDS Integers, Sequences, FiniteSets, TLC

VARIABLES
    \* ---- Part I: FoodManager (Food.py)
    foods,            \* FoodManager.foods: sequence of Food records
    current_time,     \* FoodManager.current_time
    eat_result,       \* value returned by the last eat call
    food_op,          \* the last FoodManager/Food operation that ran
    last_consume_at,  \* per food: time of its latest successful consumption (-1: never)
    last_regen_at,    \* per food: time of its latest regenerated slot (-1: never)
    streak,           \* per food: consumptions in a row since it was last full
    \* ---- Part II: FamilyTree (familytree.py)
    nodes,            \* FamilyTree.nodes: creature id -> FamilyNode
    current_generation,
    registered_in_order, \* no id was registered after a node naming it as parent, nor twice
    \* ---- Part III: the simulation
    creatures,        \* the active list, in list order (creature ids)
    cr,               \* every Creature object constructed so far, by id
    id_counter,       \* Creature._id_counter
    now,              \* pygame.time.get_ticks() - SIM_START_TIME, ms
    frame,            \* main loop position: frames begun, ms of the frame, ids still to update
    grid,             \* build_spatial_grid: <<id, cell>> of the creatures at the frame's start
    global_total_kills,
    hits,             \* the strikes of the latest Creature.update call, in order
    last_update,      \* the latest Creature.update call: whose, what it found, what it returned
    issued,           \* the ids handed out by Creature.__init__, in order
    born_of,          \* child id -> <<id of the creature that bore it, id of the sire>>
    eaten,            \* what handle_child_eater did after the latest Creature.update call
    \* ---- Part IV: functions studied on their own
    probe             \* the arguments given to the function, then also what it returned

foodVars == <<foods, current_time, eat_result, food_op, last_consume_at, last_regen_at, streak>>
treeVars == <<nodes, current_generation, registered_in_order>>
simVars == <<creatures, cr, id_counter, now, frame, grid, global_total_kills,
             hits, last_update, issued, born_of, eaten>>
probeVars == <<probe>>
vars == <<foods, current_time, eat_result, food_op, last_consume_at, last_regen_at, streak,
          nodes, current_generation, registered_in_order,
          creatures, cr, id_counter, now, frame, grid, global_total_kills,
          hits, last_update, issued, born_of, eaten, probe>>

Max(a, b) == IF a >= b THEN a ELSE b
Min(a, b) == IF a <= b THEN a ELSE b

(***************************************************************************)
(* Part I.  Food.py                                                        *)
(***************************************************************************)

\* Bounds of the food model.
NumFoods == 1          \* sprites spawned by spawn_food
MaxFoodTime == 10      \* current_time is not advanced beyond this

\* Program constants of Food.py.
MAX_SLOTS == 3
CELL_SIZE == 64
DEFAULT_RADIUS == 12
SPRITE_RADIUS == 16
FOOD_MAP_WIDTH == 256
FOOD_MAP_HEIGHT == 128
SPAWN_MARGIN == 50

\* Food._species_config, and the defaults of Food.__init__ for a sprite without species.
SpeciesConfig(species) ==
    CASE species = "plainsshrub" -> [regen_delay |-> 5, hunger_gain |-> 10, thirst_gain |-> 0]
      [] species = "foresttree" -> [regen_delay |-> 10, hunger_gain |-> 20, thirst_gain |-> 0]
      [] species = "cactus" -> [regen_delay |-> 20, hunger_gain |-> 8, thirst_gain |-> 8]
      [] species = "tundrabush" -> [regen_delay |-> 10, hunger_gain |-> 15, thirst_gain |-> 0]
      [] OTHER -> [regen_delay |-> 12, hunger_gain |-> 15, thirst_gain |-> 0]

\* The species the random spawn is sampled over, the place where the i-th sprite
\* lands (inside the spawn margin), and the frame times update is called with.
SpeciesSample == {"plainsshrub", "foresttree"}
SpawnX(i) == SPAWN_MARGIN + 10 * i
SpawnY(i) == SPAWN_MARGIN + 10
DtSample == {2, 5}

\* Food.__init__
NewFood(x, y, species) ==
    LET cfg == SpeciesConfig(species) IN
    [x |-> x, y |-> y, species |-> species,
     radius |-> IF species = "none" THEN DEFAULT_RADIUS ELSE SPRITE_RADIUS,
     max_slots |-> MAX_SLOTS, remaining_slots |-> MAX_SLOTS,
     eaten |-> FALSE, eaten_time |-> 0,
     regen_delay |-> cfg.regen_delay, last_regen_time |-> 0,
     hunger_gain |-> cfg.hunger_gain, thirst_gain |-> cfg.thirst_gain]

FoodIds == 1..NumFoods

NoneResult == [some |-> FALSE, hunger_gain |-> 0, thirst_gain |-> 0]
SomeResult(h, t) == [some |-> TRUE, hunger_gain |-> h, thirst_gain |-> t]

\* Food.eat(current_time): the food after the call.
FoodEatBuggy(food, t) ==
    LET left == Max(0, food.remaining_slots - 1) IN
    [food EXCEPT !.remaining_slots = left, !.last_regen_time = t,
                 !.eaten = (left = 0), !.eaten_time = IF left = 0 THEN t ELSE @]

FoodEat(food, t) ==
    IF food.eaten \/ food.remaining_slots <= 0
    THEN food
    ELSE LET left == Max(0, food.remaining_slots - 1) IN
         [food EXCEPT !.remaining_slots = left, !.last_regen_time = t,
                      !.eaten = IF left = 0 THEN TRUE ELSE @,
                      !.eaten_time = IF left = 0 THEN t ELSE @]

\* Food.eat(current_time): the value returned.
FoodEatResult(food) ==
    IF food.eaten \/ food.remaining_slots <= 0
    THEN NoneResult
    ELSE SomeResult(food.hunger_gain, food.thirst_gain)

\* FoodManager.respawn_food
RespawnFoodToFull(food) ==
    [food EXCEPT !.remaining_slots = food.max_slots, !.eaten_time = 0, !.eaten = FALSE]

RespawnFoodStillEaten(food) ==
    [food EXCEPT !.remaining_slots = Min(food.max_slots, food.remaining_slots + 1),
                 !.eaten_time = 0]

RespawnFood(food) ==
    LET slots == Min(food.max_slots, food.remaining_slots + 1) IN
    [food EXCEPT !.remaining_slots = slots, !.eaten_time = 0,
                 !.eaten = IF slots > 0 THEN FALSE ELSE @]

\* FoodManager.update: does this food regenerate a slot at time t?
RegenDue(food, t) ==
    LET last_time == IF food.eaten THEN food.eaten_time ELSE food.last_regen_time IN
    (t - last_time) >= food.regen_delay /\ food.remaining_slots < food.max_slots

\* FoodManager.update: one food's part of the loop.
UpdateFoodNoReset(food, t) ==
    IF RegenDue(food, t) THEN RespawnFood(food) ELSE food

UpdateFood(food, t) ==
    IF RegenDue(food, t)
    THEN [RespawnFood(food) EXCEPT !.last_regen_time = t]
    ELSE food

\* FoodManager._iter_cells_in_radius
CellsInRadiusOwnCell(x, y, radius) == {<<x \div CELL_SIZE, y \div CELL_SIZE>>}

CellsInRadius(x, y, radius) ==
    LET min_cx == Max(0, x - radius) \div CELL_SIZE
        max_cx == Min(FOOD_MAP_WIDTH - 1, x + radius) \div CELL_SIZE
        min_cy == Max(0, y - radius) \div CELL_SIZE
        max_cy == Min(FOOD_MAP_HEIGHT - 1, y + radius) \div CELL_SIZE
    IN {<<cx, cy>> : cx \in min_cx..max_cx, cy \in min_cy..max_cy}

\* FoodManager._rebuild_grid: the cell a food is bucketed in.
FoodCell(food) == <<food.x \div CELL_SIZE, food.y \div CELL_SIZE>>

\* a comes before b in the order get_food_at_position visits the foods:
\* rows of cells, then cells of a row, then the order of insertion.
VisitedBefore(fs, a, b) ==
    LET ca == FoodCell(fs[a])
        cb == FoodCell(fs[b])
    IN \/ ca[2] < cb[2]
       \/ ca[2] = cb[2] /\ ca[1] < cb[1]
       \/ ca = cb /\ a < b

\* FoodManager.get_food_at_position: index of the food found, 0 for None.
GetFoodAtPosition(fs, x, y, radius) ==
    LET found == {i \in DOMAIN fs :
                    /\ FoodCell(fs[i]) \in CellsInRadius(x, y, radius)
                    /\ ~fs[i].eaten /\ fs[i].remaining_slots > 0
                    /\ LET r == Max(radius, fs[i].radius)
                           dx == fs[i].x - x
                           dy == fs[i].y - y
                       IN dx * dx + dy * dy <= r * r}
    IN IF found = {} THEN 0
       ELSE CHOOSE i \in found : \A j \in found \ {i} : VisitedBefore(fs, i, j)

\* FoodManager.__init__ with spawn_food
InitFood ==
    /\ \E sp \in [FoodIds -> SpeciesSample] :
          foods = [i \in FoodIds |-> NewFood(SpawnX(i), SpawnY(i), sp[i])]
    /\ current_time = 0
    /\ eat_result = NoneResult
    /\ food_op = [name |-> "init", food |-> 0]
    /\ last_consume_at = [f \in FoodIds |-> -1]
    /\ last_regen_at = [f \in FoodIds |-> -1]
    /\ streak = [f \in FoodIds |-> 0]

\* The food part of a state in which no FoodManager exists.
NoFood ==
    /\ foods = <<>>
    /\ current_time = 0
    /\ eat_result = NoneResult
    /\ food_op = [name |-> "init", food |-> 0]
    /\ last_consume_at = <<>>
    /\ last_regen_at = <<>>
    /\ streak = <<>>

\* FoodManager.update(dt)
FoodManagerUpdate(dt) ==
    LET t == current_time + dt IN
    /\ t <= MaxFoodTime
    /\ current_time' = t
    /\ foods' = [f \in FoodIds |-> UpdateFood(foods[f], t)]
    /\ last_regen_at' = [f \in FoodIds |-> IF RegenDue(foods[f], t) THEN t ELSE last_regen_at[f]]
    /\ streak' = [f \in FoodIds |-> IF RegenDue(foods[f], t) THEN 0 ELSE streak[f]]
    /\ food_op' = [name |-> "update", food |-> 0]
    /\ UNCHANGED <<eat_result, last_consume_at>>

\* The bookkeeping of one Food.eat call on food f (f = 0: no food was found).
EatBookkeeping(f) ==
    /\ eat_result' = IF f = 0 THEN NoneResult ELSE FoodEatResult(foods[f])
    /\ foods' = [g \in FoodIds |-> IF g = f THEN FoodEat(foods[g], current_time) ELSE foods[g]]
    /\ last_consume_at' = [g \in FoodIds |->
                             IF g = f /\ FoodEatResult(foods[g]).some
                             THEN current_time ELSE last_consume_at[g]]
    /\ streak' = [g \in FoodIds |->
                    IF g = f /\ FoodEatResult(foods[g]).some
                    THEN (IF foods[g].remaining_slots = foods[g].max_slots THEN 1
                          ELSE IF streak[g] > 0 THEN streak[g] + 1 ELSE 0)
                    ELSE streak[g]]
    /\ UNCHANGED <<current_time, last_regen_at>>

\* Food.eat called on a food directly, exhausted or not.
EatFood(f) ==
    /\ EatBookkeeping(f)
    /\ food_op' = [name |-> "eat", food |-> f]

\* FoodManager.eat_food_at_position(x, y, radius)
EatFoodAtPosition(x, y, radius) ==
    LET f == GetFoodAtPosition(foods, x, y, radius) IN
    /\ EatBookkeeping(f)
    /\ food_op' = [name |-> "eat_at", food |-> f]

\* Where and how far the callers of eat_food_at_position look.
QueryXs == {SPAWN_MARGIN + 12, FOOD_MAP_WIDTH - SPAWN_MARGIN}
QueryYs == {SPAWN_MARGIN + 10}
QueryRadii == {10, 20}

NextFood ==
    \/ \E dt \in DtSample : FoodManagerUpdate(dt) /\ UNCHANGED <<treeVars, simVars, probeVars>>
    \/ \E f \in FoodIds : EatFood(f) /\ UNCHANGED <<treeVars, simVars, probeVars>>
    \/ \E x \in QueryXs, y \in QueryYs, r \in QueryRadii :
          EatFoodAtPosition(x, y, r) /\ UNCHANGED <<treeVars, simVars, probeVars>>

(***************************************************************************)
(* Part II.  familytree.py                                                 *)
(***************************************************************************)

\* Bounds of the lineage model driven through the FamilyTree interface.
MaxTreeId == 3         \* creature ids handed to add_creature are 1..MaxTreeId
MaxTreeTick == 1       \* death times handed to mark_creature_dead are 1..MaxTreeTick

None == 0              \* Python's None where an id is expected
NoParents == <<>>      \* parent_ids = None

\* FamilyNode.__init__
FamilyNode(creature_id, parent_ids) ==
    [creature_id |-> creature_id, parent_ids |-> parent_ids, children_ids |-> {},
     generation |-> 0, alive |-> TRUE, death_time |-> -1]

\* get_gen inside FamilyNode.calculate_generation
GetGen(ns, pid) ==
    IF pid = None \/ pid \notin DOMAIN ns THEN -1 ELSE ns[pid].generation

\* FamilyNode.calculate_generation: the generation it stores and returns.
CalculateGenerationMin(ns, parent_ids) ==
    IF parent_ids = NoParents \/ parent_ids = <<None, None>>
    THEN 0
    ELSE Min(GetGen(ns, parent_ids[1]), GetGen(ns, parent_ids[2])) + 1

CalculateGeneration(ns, parent_ids) ==
    IF parent_ids = NoParents \/ parent_ids = <<None, None>>
    THEN 0
    ELSE Max(GetGen(ns, parent_ids[1]), GetGen(ns, parent_ids[2])) + 1

\* FamilyNode.add_child on node pid, when pid is a registered id.
AddChild(ns, pid, child_id) ==
    IF pid # None /\ pid \in DOMAIN ns
    THEN [ns EXCEPT ![pid].children_ids = @ \cup {child_id}]
    ELSE ns

\* FamilyTree.add_creature: the node table after the call.
AddCreature(ns, creature_id, parent_ids) ==
    LET fresh == [i \in DOMAIN ns \cup {creature_id} |->
                     IF i = creature_id THEN FamilyNode(creature_id, parent_ids) ELSE ns[i]]
        linked == IF parent_ids # NoParents
                  THEN AddChild(AddChild(fresh, parent_ids[1], creature_id),
                                parent_ids[2], creature_id)
                  ELSE fresh
    IN [linked EXCEPT ![creature_id].generation = CalculateGeneration(linked, parent_ids)]

\* FamilyTree.mark_creature_dead
MarkCreatureDeadDropsNode(ns, creature_id, death_time) ==
    [i \in DOMAIN ns \ {creature_id} |-> ns[i]]

MarkCreatureDead(ns, creature_id, death_time) ==
    IF creature_id \in DOMAIN ns
    THEN [ns EXCEPT ![creature_id].alive = FALSE, ![creature_id].death_time = death_time]
    ELSE ns

\* FamilyTree.__init__
InitTree ==
    /\ nodes = <<>>
    /\ current_generation = 0
    /\ registered_in_order = TRUE

NoTree == InitTree

TreeIds == 1..MaxTreeId
\* The parent_ids handed to add_creature: None, (None, None), or a (mother, father)
\* pair in which either id may be None, unregistered, or the child itself.
ParentChoices ==
    {NoParents} \cup {<<m, f>> : m \in 0..MaxTreeId, f \in {0, MaxTreeId - 1, MaxTreeId}}

\* Some registered node names pid as a parent.
NamedAsParent(ns, pid) ==
    \E i \in DOMAIN ns : ns[i].parent_ids # NoParents /\
                         (ns[i].parent_ids[1] = pid \/ ns[i].parent_ids[2] = pid)

\* add_creature_to_tree(creature_id, parent_ids)
AddCreatureToTree(creature_id, parent_ids) ==
    /\ nodes' = AddCreature(nodes, creature_id, parent_ids)
    /\ current_generation' = Max(current_generation, nodes'[creature_id].generation)
    /\ registered_in_order' =
          (/\ registered_in_order
           /\ creature_id \notin DOMAIN nodes
           /\ ~NamedAsParent(nodes, creature_id)
           /\ (parent_ids = NoParents \/
               (parent_ids[1] # creature_id /\ parent_ids[2] # creature_id)))

\* mark_creature_dead_in_tree(creature_id, death_time)
MarkCreatureDeadInTree(creature_id, death_time) ==
    /\ nodes' = MarkCreatureDead(nodes, creature_id, death_time)
    /\ UNCHANGED <<current_generation, registered_in_order>>

\* The ids add_creature is called with: any id not registered yet, and id 1 again.
Registrable(id) == id \notin DOMAIN nodes \/ id = 1

NextTree ==
    \/ \E id \in TreeIds, p \in ParentChoices :
          Registrable(id) /\ AddCreatureToTree(id, p) /\ UNCHANGED <<foodVars, simVars, probeVars>>
    \/ \E id \in TreeIds, t \in 1..MaxTreeTick :
          MarkCreatureDeadInTree(id, t) /\ UNCHANGED <<foodVars, simVars, probeVars>>

(***************************************************************************)
(* Part III.  evolution_simulation_fully_integrated9.py with mutations.py  *)
(*                                                                         *)
(* Creatures, ponds and food all lie on one horizontal line, so a position *)
(* is its x alone and a direction is +1 or -1.  Positions, speeds, health, *)
(* hunger, thirst, attack, defense and aggression are counted in           *)
(* thousandths (Scale); products are truncated.  The mutations carried are *)
(* drawn from Paranoia, Dominant and Child Eater: for a creature with no   *)
(* other mutation every other handler of mutations.py returns without      *)
(* effect.  The food                                                       *)
(* the simulation builds (FoodManager(FOOD_COUNT, ...), food.active,       *)
(* food.consume()) is not the class of Food.py; whether an active food     *)
(* lies at a creature's position is an input of each update.               *)
(***************************************************************************)

\* Bounds of the simulation model.
NumFounders == 2       \* CREATURE_COUNT chosen in the setup menu
MaxTicks == 3          \* frames of the main loop
MaxCreatures == 4      \* Creature objects constructed

\* Thousandths.
Scale == 1000

\* Program constants.
MAP_WIDTH == 1000
CREATURE_RADIUS == 6
FOOD_VALUE == 30
WATER_VALUE == 30
GRID_SIZE == 50
AMNESTY_MS == 120000
PARANOIA_RADIUS == 50
CHILD_EATER_RADIUS == 30
MIN_MAX_AGE == 300000
MAX_MAX_AGE == 360000

Abs(a) == IF a < 0 THEN -a ELSE a
Clamp(lo, hi, v) == Max(lo, Min(hi, v))
Mul(a, b) == (a * b) \div Scale
Range(s) == {s[k] : k \in DOMAIN s}

\* The ms a frame took (clock.get_time()): an ordinary frame at FPS = 60, and a
\* stall as long as the shortest gestation.
FrameMsSample == {17, 30000}

\* pygame.time.get_ticks() - SIM_START_TIME when the main loop starts: the setup
\* menu was answered at once, or after the amnesty had run out.
StartDelaySample == {0, AMNESTY_MS}

\* The ponds: one the founders stand in, one out of sight.
Ponds == <<[x |-> 510 * Scale, radius |-> 30 * Scale],
           [x |-> 900 * Scale, radius |-> 60 * Scale]>>

\* The random draws of Creature.__init__ that the samples below do not vary.
Draws ==
    [speed |-> 2 * Scale, vision |-> 120 * Scale, offspring_count |-> 1,
     attractiveness |-> Scale, threshold |-> Scale \div 5,
     gestation_duration |-> 30000, infertility |-> 1, max_age |-> MIN_MAX_AGE,
     defense |-> Scale, aggression |-> Scale \div 2,
     seeking_mate_direction |-> 1, seeking_resource_direction |-> 1]

\* Creature.__init__: the object built for id from the draws d.
Creature(id, d) ==
    [unique_id |-> id, kill_count |-> 0, mutations |-> d.mutations,
     mother_id |-> None, father_id |-> d.father_id,
     x |-> d.x, speed |-> d.speed, vision |-> d.vision,
     hunger |-> d.hunger, thirst |-> d.thirst,
     max_health |-> d.max_health, health |-> d.max_health,
     offspring_count |-> d.offspring_count, sex |-> d.sex,
     attractiveness |-> d.attractiveness, threshold |-> d.threshold,
     gestation_timer |-> 0, gestation_duration |-> d.gestation_duration,
     infertility |-> d.infertility,
     max_age |-> d.max_age, maturity_age |-> d.max_age \div 4, age |-> d.max_age \div 4,
     attack |-> d.attack, defense |-> d.defense, aggression |-> d.aggression,
     pending_offspring |-> <<>>,
     seeking_mate_direction |-> d.seeking_mate_direction,
     seeking_resource_direction |-> d.seeking_resource_direction]

\* Creature.__init__: the counter after an id was handed out.
NextIdCounterStuck(counter) == counter

NextIdCounter(counter) == counter + 1

\* The founders Creature() can build, by place in the list: where they stand
\* (gap px apart), and the draws that differ between them.
FounderX(i, gap) == (500 + (i - 1) * gap) * Scale
GapSample == {10, 40}
FounderDraws(i) ==
    IF i = 1
    THEN {[sex |-> "F", mutations |-> {}, max_health |-> 100 * Scale, attack |-> Scale],
          [sex |-> "F", mutations |-> {}, max_health |-> 100 * Scale, attack |-> 5 * Scale],
          [sex |-> "F", mutations |-> {"Paranoia"}, max_health |-> 3 * Scale, attack |-> Scale],
          [sex |-> "F", mutations |-> {"Child Eater"}, max_health |-> 3 * Scale, attack |-> Scale]}
    ELSE {[sex |-> "M", mutations |-> {}, max_health |-> 100 * Scale, attack |-> Scale],
          [sex |-> "M", mutations |-> {"Child Eater"}, max_health |-> 3 * Scale, attack |-> Scale],
          [sex |-> "M", mutations |-> {}, max_health |-> 100 * Scale, attack |-> 5 * Scale],
          [sex |-> "M", mutations |-> {"Dominant"}, max_health |-> 100 * Scale, attack |-> Scale]}
RationSample == {60 * Scale, 100 * Scale}

Founder(i, gap, f, ration) ==
    Creature(i, [k \in DOMAIN Draws \cup DOMAIN f \cup {"x", "hunger", "thirst", "father_id"} |->
                    IF k \in DOMAIN f THEN f[k]
                    ELSE IF k = "x" THEN FounderX(i, gap)
                    ELSE IF k \in {"hunger", "thirst"} THEN ration
                    ELSE IF k = "father_id" THEN None
                    ELSE Draws[k]])

\* Age scaling factor of Creature.update, in thousandths.
AgeFactor(c) ==
    IF c.age * 10 < c.max_age
    THEN 750 + (250 * c.age * 10) \div c.max_age
    ELSE IF c.age >= c.max_age THEN 500
    ELSE IF c.age * 10 > 9 * c.max_age
    THEN Max(500, 1000 - (500 * (c.age * 10 - 9 * c.max_age)) \div c.max_age)
    ELSE 1000

\* age_pct < 0.10 and age_pct > 0.90
IsElderNever(c) == FALSE

IsChild(c) == c.age * 10 < c.max_age
IsElder(c) == c.age * 10 > 9 * c.max_age

\* is_pregnant of Creature.update
IsPregnant(c, t) == c.sex = "F" /\ t < c.gestation_timer

\* in_pond of Creature.update, and the pond drink_from_pond finds (0: none)
InPond(c) == \E k \in DOMAIN Ponds : Abs(c.x - Ponds[k].x) < Ponds[k].radius
PondAt(c) ==
    IF InPond(c)
    THEN CHOOSE k \in DOMAIN Ponds :
            /\ Abs(c.x - Ponds[k].x) < Ponds[k].radius
            /\ \A j \in DOMAIN Ponds : Abs(c.x - Ponds[j].x) < Ponds[j].radius => k <= j
    ELSE 0

\* The effective stats of Creature.update for a creature whose mutations give no
\* multiplier, in plains and by day.
EffectiveAttack(c) == Mul(c.attack, AgeFactor(c))
EffectiveDefense(c) == Mul(c.defense, AgeFactor(c))
EffectiveAggression(c) == Mul(c.aggression, AgeFactor(c))
EffectiveVision(c) == Mul(c.vision, AgeFactor(c))
EffectiveSpeed(c, t) ==
    LET aged == Mul(c.speed, AgeFactor(c))
        slowed == IF IsPregnant(c, t) THEN (aged * 2) \div 3 ELSE aged
    IN IF InPond(c) THEN slowed \div 2 ELSE slowed

\* handle_dominant(attacker, defender), in thousandths.
HandleDominant(attacker, defender) ==
    IF "Dominant" \in attacker.mutations /\ "Dominant" \notin defender.mutations
    THEN 1500 ELSE 1000

\* handle_paranoia: the first creature of the list, not the creature itself, that
\* is nearer than 50 px (None: nobody).  No creature here has a pack or a loyal mate.
ParanoiaThreat(table, list, self) ==
    IF "Paranoia" \notin table[self].mutations THEN None
    ELSE LET near == SelectSeq(list, LAMBDA o :
                        o # self /\ Abs(table[o].x - table[self].x) < PARANOIA_RADIUS * Scale)
         IN IF near = <<>> THEN None ELSE Head(near)

\* get_grid_cell, and get_neighbors(grid, x, y, 'creature', radius): the creatures
\* bucketed at the frame's start in the three cells around x that are now within
\* radius of x, in the order the cells are visited.
GetGridCell(x) == x \div (GRID_SIZE * Scale)
GetNeighbors(g, table, x, radius) ==
    LET InCell(cell) == SelectSeq(g, LAMBDA e : e[2] = cell /\ Abs(table[e[1]].x - x) <= radius)
        Ids(s) == [k \in DOMAIN s |-> s[k][1]]
    IN Ids(InCell(GetGridCell(x) - 1) \o InCell(GetGridCell(x)) \o InCell(GetGridCell(x) + 1))

\* The direction from a to b on the line (0 when they coincide).
Sign(d) == IF d > 0 THEN 1 ELSE IF d < 0 THEN -1 ELSE 0

\* The damage of a strike, and whether the code counts the strike as a kill.
Damage(attack_value, defense_value) == Max(0, attack_value - defense_value)
WasKillIgnoringWasAlive(before, after) == after <= 0

WasKill(before, after) == before > 0 /\ after <= 0

\* One strike: "damage = max(0, ...); if damage > 0: was_alive = d.health > 0;
\* d.health -= damage; if was_alive and d.health <= 0: count the kill".
\* handle_cannibal and trigger_blood_frenzy do nothing for these creatures.
Strike(w, a, d, attack_value, defense_value, kind) ==
    LET damage == Damage(attack_value, defense_value)
        before == w.cr[d].health
        after == IF damage > 0 THEN before - damage ELSE before
        kill == damage > 0 /\ WasKill(before, after)
    IN [w EXCEPT !.cr[d].health = after,
                 !.cr[a].kill_count = IF kill THEN @ + 1 ELSE @,
                 !.kills = IF kill THEN @ + 1 ELSE @,
                 !.hits = Append(@, [attacker |-> a, defender |-> d, kind |-> kind,
                                     before |-> before, after |-> after, kill |-> kill])]

\* A strike by self on c and, when it does no damage and c's aggression roll
\* succeeds, c's retaliation with its raw attack against self's effective defense.
Attack(w, self, c, attack_value, defense_value, kind, retaliates) ==
    LET struck == Strike(w, self, c, attack_value, defense_value, kind) IN
    IF Damage(attack_value, defense_value) > 0 \/ ~retaliates
    THEN struck
    ELSE Strike(struck, c, self, w.cr[c].attack, EffectiveDefense(w.cr[self]), "retaliation")

\* "self.x += (dx / dist) * speed" away from c, when they do not coincide.
FleeFrom(w, self, c, speed) ==
    [w EXCEPT !.cr[self].x = @ + Sign(@ - w.cr[c].x) * speed]

\* The combat loop of Creature.update over the neighbours ns, for a target at tx.
RECURSIVE Contest(_, _, _, _, _, _, _)
Contest(w, self, ns, tx, t, speed, retaliates) ==
    IF ns = <<>> THEN w
    ELSE LET c == Head(ns) IN
         IF c = self \/ Abs(w.cr[c].x - tx) >= 2 * CREATURE_RADIUS * Scale
         THEN Contest(w, self, Tail(ns), tx, t, speed, retaliates)
         ELSE IF IsPregnant(w.cr[self], t) \/ IsChild(w.cr[self])
         THEN [FleeFrom(w, self, c, speed) EXCEPT !.contested = TRUE]
         ELSE Contest([Attack(w, self, c,
                              Mul(EffectiveAttack(w.cr[self]),
                                  HandleDominant(w.cr[self], w.cr[c])),
                              Mul(w.cr[c].defense, HandleDominant(w.cr[c], w.cr[self])),
                              "contested", retaliates)
                          EXCEPT !.contested = TRUE],
                      self, Tail(ns), tx, t, speed, retaliates)

\* Creature.random_attack over the creatures of the list.
RECURSIVE RandomAttackLoop(_, _, _, _, _)
RandomAttackLoop(w, self, list, attacks, retaliates) ==
    IF list = <<>> THEN w
    ELSE LET other == Head(list)
             next == IF /\ other # self
                        /\ Abs(w.cr[other].x - w.cr[self].x) <= w.cr[self].vision
                        /\ attacks
                     THEN Attack(w, self, other, EffectiveAttack(w.cr[self]),
                                 w.cr[other].defense, "random", retaliates)
                     ELSE w
         IN RandomAttackLoop(next, self, Tail(list), attacks, retaliates)

RandomAttack(w, self, list, t, attacks, retaliates) ==
    IF t < AMNESTY_MS \/ IsChild(w.cr[self]) THEN w
    ELSE RandomAttackLoop(w, self, list, attacks, retaliates)

\* Creature.eat, given whether an active food lies within CREATURE_RADIUS.
Eat(w, self, food_near) ==
    IF food_near
    THEN [w EXCEPT !.cr[self].hunger = Min(100 * Scale, @ + FOOD_VALUE * Scale),
                   !.cr[self].health = Min(w.cr[self].max_health, @ + 5 * Scale)]
    ELSE w

\* Creature.drink_from_pond: the drink, and on the 20% roll a strike with the raw
\* attack on the creature picked among those in the pond.
Drink(w, self, list, water_roll, picked) ==
    LET k == PondAt(w.cr[self]) IN
    IF k = 0 THEN w
    ELSE LET drunk == [w EXCEPT !.cr[self].thirst = Min(100 * Scale, @ + WATER_VALUE * Scale),
                                !.cr[self].health = Min(w.cr[self].max_health, @ + 5 * Scale)]
             others == {c \in Range(list) :
                           c # self /\ Abs(w.cr[c].x - Ponds[k].x) < Ponds[k].radius}
         IN IF water_roll /\ picked \in others
            THEN Strike(drunk, self, picked, drunk.cr[self].attack,
                        drunk.cr[picked].defense, "watering")
            ELSE drunk

\* The test both reproduce and the mate search make of a pair's attractiveness,
\* with the age factor of the creature that is being updated.
Attracted(s, o, age_factor) ==
    /\ Mul(s.attractiveness, age_factor) >= o.threshold
    /\ Mul(o.attractiveness, age_factor) >= s.threshold

\* handle_twin_gene: either parent carrying Twin Gene doubles the offspring (10 at
\* most) and spares both parents the cost.
HandleTwinGene(mother, father, base_offspring_count) ==
    IF "Twin Gene" \in mother.mutations \cup father.mutations
    THEN [count |-> Min(10, base_offspring_count * 2), skip_cost |-> TRUE]
    ELSE [count |-> base_offspring_count, skip_cost |-> FALSE]

\* handle_brood_sac: a mother carrying Brood Sac bears half as many again (rounded
\* up, 10 at most) with a gestation of 0 ("rush"); without Brood Sac the gestation it
\* returns is None, written "none" here.
HandleBroodSacNoRush(mother, base_offspring_count) ==
    [count |-> base_offspring_count, gestation |-> "none"]

HandleBroodSac(mother, base_offspring_count) ==
    IF "Brood Sac" \in mother.mutations
    THEN [count |-> Min(10, (3 * base_offspring_count + 1) \div 2), gestation |-> "rush"]
    ELSE [count |-> base_offspring_count, gestation |-> "none"]

\* The tests reproduce makes of a neighbour o before the infertility roll.
ReproducePasses(table, self, o) ==
    /\ o # self
    /\ {table[self].sex, table[o].sex} = {"M", "F"}
    /\ table[o].hunger >= 50 * Scale /\ table[o].thirst >= 50 * Scale
    /\ Attracted(table[self], table[o], AgeFactor(table[self]))
    /\ ~IsChild(table[o]) /\ ~IsElder(table[o])
    /\ Abs(table[o].x - table[self].x) < 2 * CREATURE_RADIUS * Scale

\* The early returns of reproduce, before it looks at any neighbour.
ReproduceRefuses(s, t) ==
    \/ IsChild(s) \/ IsElder(s)
    \/ s.sex = "F" /\ (t < s.gestation_timer \/ s.pending_offspring # <<>>)
    \/ s.sex = "F" /\ s.gestation_duration > s.max_age - s.age
    \/ s.hunger < 50 * Scale \/ s.thirst < 50 * Scale

\* The mating itself: the entry on the mother's queue, the cost to both parents,
\* the halved gestation of a Loyal Mate pair, and the mother's timer.
Mate(w, mother, father, t) ==
    LET twin == HandleTwinGene(w.cr[mother], w.cr[father], w.cr[mother].offspring_count)
        brood == HandleBroodSac(w.cr[mother], twin.count)
        cost == IF twin.skip_cost THEN 0 ELSE brood.count * 10 * Scale
        duration == IF "Loyal Mate" \in w.cr[mother].mutations \cup w.cr[father].mutations
                    THEN Max(1000, w.cr[mother].gestation_duration \div 2)
                    ELSE w.cr[mother].gestation_duration
    IN [w EXCEPT !.cr[mother].pending_offspring = Append(@, <<father, brood.count>>),
                 !.cr[mother].hunger = Max(0, @ - cost),
                 !.cr[mother].thirst = Max(0, @ - cost),
                 !.cr[father].hunger = Max(0, @ - cost),
                 !.cr[father].thirst = Max(0, @ - cost),
                 !.cr[mother].gestation_duration = duration,
                 !.cr[mother].gestation_timer =
                     IF brood.gestation = "rush" THEN t ELSE t + duration]

\* Creature.reproduce: the first neighbour that passes the tests mates with self
\* unless the infertility roll fails the mating.
Reproduce(w, self, g, t, infertile) ==
    LET s == w.cr[self]
        candidates == SelectSeq(GetNeighbors(g, w.cr, s.x, 2 * CREATURE_RADIUS * Scale),
                                LAMBDA o : ReproducePasses(w.cr, self, o))
    IN IF ReproduceRefuses(s, t) \/ candidates = <<>> \/ infertile
       THEN w
       ELSE IF s.sex = "F" THEN Mate(w, self, Head(candidates), t)
            ELSE Mate(w, Head(candidates), self, t)

\* A target of Creature.update: nothing, a food, a pond or a mate, and where it is.
NoTarget == [kind |-> "none", x |-> 0]

\* find_nearest(foods, ...) when an active food lies at the creature's position or
\* none is in sight.
FoodTarget(s, food_near) ==
    IF food_near THEN [kind |-> "food", x |-> s.x] ELSE NoTarget

\* find_nearest_pond: of the ponds within vision + radius, the one whose edge is
\* nearest, then the nearest, then the first.
FindNearestPond(s, vision) ==
    LET Dist(k) == Abs(Ponds[k].x - s.x)
        Edge(k) == Abs(Dist(k) - Ponds[k].radius)
        cands == {k \in DOMAIN Ponds : Dist(k) <= vision + Ponds[k].radius}
        Before(j, k) == \/ Edge(j) < Edge(k)
                        \/ Edge(j) = Edge(k) /\ Dist(j) < Dist(k)
                        \/ Edge(j) = Edge(k) /\ Dist(j) = Dist(k) /\ j < k
    IN IF cands = {} THEN NoTarget
       ELSE LET k == CHOOSE k \in cands : \A j \in cands \ {k} : Before(k, j)
            IN [kind |-> "pond", x |-> Ponds[k].x]

\* The mate search of Creature.update: the first creature of the list that passes.
MateTarget(table, list, self, t) ==
    LET s == table[self]
        Passes(o) ==
            /\ o # self
            /\ {s.sex, table[o].sex} = {"M", "F"}
            /\ table[o].hunger >= 70 * Scale /\ table[o].thirst >= 70 * Scale
            /\ ~(s.sex = "M" /\ t < table[o].gestation_timer)
            /\ Attracted(s, table[o], AgeFactor(s))
            /\ table[o].age * 4 >= table[o].max_age
            /\ table[o].age * 4 <= 3 * table[o].max_age
            /\ Abs(table[o].x - s.x) <= EffectiveVision(s)
        found == SelectSeq(list, Passes)
    IN IF found = <<>> THEN NoTarget
       ELSE [kind |-> "mate", x |-> table[Head(found)].x]

\* A pond counts as a target only for a creature whose thirst is under 70; of the
\* food and the pond, the food wins when hunger is the lower of the two needs,
\* else the pond when there is one, else the food.
ResourceTargetPondFirst(hunger, thirst, food, pond_seen) ==
    LET pond == IF thirst < 70 * Scale THEN pond_seen ELSE NoTarget
    IN IF pond.kind # "none" THEN pond ELSE food

ResourceTarget(hunger, thirst, food, pond_seen) ==
    LET pond == IF thirst < 70 * Scale THEN pond_seen ELSE NoTarget
    IN IF hunger < thirst /\ food.kind # "none" THEN food
       ELSE IF pond.kind # "none" THEN pond
       ELSE food

\* The target Creature.update settles on.
ChooseTarget(table, list, self, t, food_near) ==
    LET s == table[self]
    IN IF s.hunger < 70 * Scale \/ s.thirst < 70 * Scale
       THEN ResourceTarget(s.hunger, s.thirst, FoodTarget(s, food_near),
                           FindNearestPond(s, EffectiveVision(s)))
       ELSE MateTarget(table, list, self, t)

\* "self.x = max(0, min(MAP_WIDTH, self.x))"
ClampToMap(x) == Clamp(0, MAP_WIDTH * Scale, x)

\* The move of a creature that has no target: along its seeking direction, which is
\* drawn anew at the map's edge (and, when seeking a resource, on a 1% roll).
SeekMove(w, self, speed, hungry, dir) ==
    LET s == w.cr[self]
        x1 == s.x + (IF hungry THEN s.seeking_resource_direction
                     ELSE s.seeking_mate_direction) * speed
        hit_edge == x1 <= 0 \/ x1 >= MAP_WIDTH * Scale
    IN [w EXCEPT !.cr[self].x = ClampToMap(x1),
                 !.cr[self].seeking_resource_direction = IF hungry THEN dir ELSE @,
                 !.cr[self].seeking_mate_direction = IF ~hungry /\ hit_edge THEN dir ELSE @]

\* The random draws and the food in reach of one Creature.update call: picked is
\* the creature random.choice gives when the 20% roll of the watering hole succeeds
\* (None when the roll fails).  The calls sampled: one in which every roll fails
\* and no food is in reach, and those that differ from it in the food, in the
\* fertility roll, in the direction drawn, or in the rolls that lead to a strike.
Quiet ==
    [food_near |-> FALSE, retaliates |-> FALSE, attacks |-> FALSE, picked |-> None,
     infertile |-> FALSE, dir |-> 1]
Rolls(list, self) ==
    {Quiet,
     [Quiet EXCEPT !.food_near = TRUE],
     [Quiet EXCEPT !.infertile = TRUE],
     [Quiet EXCEPT !.dir = -1]}
    \cup {[Quiet EXCEPT !.retaliates = TRUE, !.attacks = TRUE, !.picked = o]
             : o \in {o \in Range(list) : o # self}}

\* The hunger and thirst a frame drains: 0.02 and 0.025 per unit of speed, 1.3
\* times that for a pregnant creature.
HungerDrain(c, pregnant) == IF pregnant THEN (26 * c.speed) \div 1000 ELSE (20 * c.speed) \div 1000
ThirstDrain(c, pregnant) == IF pregnant THEN (325 * c.speed) \div 10000 ELSE (25 * c.speed) \div 1000

\* The conditions Creature.update removes a creature for.
DeathCondition(c) == c.health <= 0 \/ c.age >= c.max_age \/ c.hunger <= 0 \/ c.thirst <= 0

\* "If loyal mate, bias movement toward mate if not close": half a step toward the
\* mate the search settled on.
Biased(w, self, target, speed) ==
    IF target.kind = "mate"
    THEN [w EXCEPT !.cr[self].x = @ + Sign(target.x - @) * (speed \div 2)]
    ELSE w

\* "Handle combat": the loop over the neighbours within two radii.
Fought(w, g, self, t, speed, target, retaliates) ==
    Contest([w EXCEPT !.contested = FALSE], self,
            GetNeighbors(g, w.cr, w.cr[self].x, 2 * CREATURE_RADIUS * Scale),
            target.x, t, speed, retaliates)

\* "Movement" toward the target unless the target was contested, and the clamp.
Moved(w, self, target, speed) ==
    [w EXCEPT !.cr[self].x = ClampToMap(IF w.contested THEN @
                                        ELSE @ + Sign(target.x - @) * speed)]

\* "if self.hunger < 100: self.eat(foods, grid)"
Fed(w, self, food_near) ==
    IF w.cr[self].hunger < 100 * Scale THEN Eat(w, self, food_near) ELSE w

\* "if self.thirst < 100: self.drink_from_pond(ponds)"
Watered(w, self, list, picked) ==
    IF w.cr[self].thirst < 100 * Scale THEN Drink(w, self, list, picked # None, picked) ELSE w

\* "Clamp health, hunger, and thirst to a minimum of zero after all effects"
Floored(w, self) ==
    [w EXCEPT !.cr[self].health = Max(0, @),
              !.cr[self].hunger = Max(0, @),
              !.cr[self].thirst = Max(0, @)]

\* Creature.update after the combat loop: "Die if health reaches 0", or the rest.
Survive(w, list, g, self, t, speed, target, r, dead) ==
    IF w.cr[self].health <= 0
    THEN [w |-> w, returned |-> FALSE, dead |-> dead]
    ELSE [w |-> Floored(Reproduce(Watered(Fed(RandomAttack(Moved(w, self, target, speed),
                                                           self, list, t, r.attacks,
                                                           r.retaliates),
                                              self, r.food_near),
                                          self, list, r.picked),
                                  self, g, t, r.infertile),
                        self),
          returned |-> TRUE, dead |-> dead]

\* Creature.update from the bias toward the mate on, for a creature with a target.
Engage(w, list, g, self, t, speed, target, r, dead) ==
    Survive(Fought(Biased(w, self, target, speed), g, self, t, speed, target, r.retaliates),
            list, g, self, t, speed, target, r, dead)

\* The drain of the frame with "self.age = clock.get_time()" for the age.
DrainedAgeSet(c, t, dt) ==
    [c EXCEPT !.age = dt,
              !.hunger = @ - HungerDrain(c, IsPregnant(c, t)),
              !.thirst = @ - ThirstDrain(c, IsPregnant(c, t))]

\* The creature after "self.age += clock.get_time()" and the drain of the frame.
Drained(c, t, dt) ==
    [c EXCEPT !.age = @ + dt,
              !.hunger = @ - HungerDrain(c, IsPregnant(c, t)),
              !.thirst = @ - ThirstDrain(c, IsPregnant(c, t))]

\* Creature.update from the flee logic on: speed is the effective speed of the
\* frame, dead whether a death condition holds of the creature.
Act(w, list, g, self, t, speed, threat, target, dead, r) ==
    IF threat # None
    THEN [w |-> [FleeFrom(w, self, threat, speed) EXCEPT !.cr[self].x = ClampToMap(@)],
          returned |-> TRUE, dead |-> dead]
    ELSE IF w.cr[self].health <= 0
    THEN [w |-> w, returned |-> FALSE, dead |-> dead]
    ELSE IF dead
    THEN [w |-> [w EXCEPT !.cr[self].health = 0], returned |-> FALSE, dead |-> dead]
    ELSE IF target.kind = "none"
    THEN [w |-> SeekMove(w, self, speed,
                         w.cr[self].hunger < 70 * Scale \/ w.cr[self].thirst < 70 * Scale,
                         r.dir),
          returned |-> TRUE, dead |-> dead]
    ELSE Engage(w, list, g, self, t, speed, target, r, dead)

\* The world once self has aged and drained.
Worn(w, self, t, dt) == [w EXCEPT !.cr[self] = Drained(@, t, dt)]

\* The rest of Creature.update in that world.
Resolve(w, list, g, self, t, r) ==
    Act(w, list, g, self, t, EffectiveSpeed(w.cr[self], t),
        ParanoiaThreat(w.cr, list, self),
        ChooseTarget(w.cr, list, self, t, r.food_near),
        DeathCondition(w.cr[self]), r)

\* Creature.update(foods, creatures, grid) of creature self, t ms into the run, in
\* a frame of dt ms, with the rolls r: the world after the call, the value
\* returned, and whether a death condition held of the creature in the call.
Update(w, list, g, self, t, dt, r) ==
    Resolve(Worn(w, self, t, dt), list, g, self, t, r)

\* mutate(val, pct) of make_offspring when the draw is 0.
Mutate(val) == Max(Scale \div 10, val)

\* int(v) for a v counted in thousandths.
Trunc(v) == (v \div Scale) * Scale

\* The (mother_id, father_id) make_offspring works out for m.make_offspring(p).
ParentIdsBothMother(m, p) == <<m.unique_id, m.unique_id>>

ParentIds(m, p) ==
    <<IF m.sex = "F" THEN m.unique_id ELSE p.unique_id,
      IF m.sex = "F" THEN p.unique_id ELSE m.unique_id>>

\* Creature.make_offspring(partner) called on m: the child built for id, of the sex
\* drawn.  The draws of the constructor the child keeps are those of Draws; its
\* hunger and thirst are drawn at 100.
MakeOffspring(m, p, id, sex) ==
    LET father_id == ParentIds(m, p)[2]
        born == Creature(id, [k \in DOMAIN Draws \cup
                                    {"x", "hunger", "thirst", "father_id", "sex",
                                     "mutations", "max_health", "attack"} |->
                 CASE k = "x" -> m.x
                   [] k \in {"hunger", "thirst"} -> 100 * Scale
                   [] k = "father_id" -> father_id
                   [] k = "sex" -> sex
                   [] k = "mutations" -> m.mutations
                   [] k = "max_health" ->
                        Trunc(Clamp(Scale, 100 * Scale, Mutate((m.max_health + p.max_health) \div 2)))
                   [] k = "attack" -> Scale
                   [] OTHER -> Draws[k]])
        max_age == Clamp(MIN_MAX_AGE, MAX_MAX_AGE, (m.max_age + p.max_age) \div 2)
    IN [born EXCEPT
          !.speed = Mutate((m.speed + p.speed) \div 2),
          !.vision = Max(Scale, Trunc(Mutate((m.vision + p.vision) \div 2))),
          !.offspring_count = Clamp(1, 5, (m.offspring_count + p.offspring_count) \div 2),
          !.attractiveness = Mutate((m.attractiveness + p.attractiveness) \div 2),
          !.attack = Mutate((m.attack + p.attack) \div 2),
          !.defense = Mutate((m.defense + p.defense) \div 2),
          !.aggression = Clamp(0, Scale, Mutate((m.aggression + p.aggression) \div 2)),
          !.gestation_duration = Min(@, Max(1000, born.max_age - born.maturity_age)),
          !.max_age = max_age,
          !.maturity_age = max_age \div 4,
          !.infertility = Clamp(1, 100, (m.infertility + p.infertility) \div 2),
          !.age = 0]

\* handle_child_eater found nothing to eat, or was not called yet.
NothingEaten == [by |-> None, child |-> None]

\* The ids Creature.__init__ hands to n creatures built in a row, from the counter on.
RECURSIVE IssueIds(_, _)
IssueIds(n, counter) ==
    IF n = 0 THEN <<>> ELSE <<counter>> \o IssueIds(n - 1, NextIdCounter(counter))

RECURSIVE CounterAfter(_, _)
CounterAfter(n, counter) ==
    IF n = 0 THEN counter ELSE CounterAfter(n - 1, NextIdCounter(counter))

\* build_spatial_grid over every creature ever made, the removed ones too.
BuildSpatialGridOfAll(table, list) ==
    [k \in DOMAIN table |-> <<k, GetGridCell(table[k].x)>>]

\* build_spatial_grid(creatures, foods): the creatures of the list with their cells.
BuildSpatialGrid(table, list) ==
    [k \in DOMAIN list |-> <<list[k], GetGridCell(table[list[k]].x)>>]

\* creatures.remove(c)
RemoveNobody(list, c) == list

Remove(list, c) == SelectSeq(list, LAMBDA o : o # c)

\* Game initialization: the founders are built, listed and registered without parents.
InitSim ==
    \E gap \in GapSample, start \in StartDelaySample, ration \in RationSample,
       f \in [1..NumFounders -> UNION {FounderDraws(i) : i \in 1..NumFounders}] :
        /\ \A i \in 1..NumFounders : f[i] \in FounderDraws(i)
        /\ LET ids == IssueIds(NumFounders, 1) IN
           /\ creatures = ids
           /\ cr = [id \in Range(ids) |->
                      LET i == CHOOSE k \in DOMAIN ids : ids[k] = id
                      IN Founder(id, gap, f[i], ration)]
           /\ issued = ids
        /\ id_counter = CounterAfter(NumFounders, 1)
        /\ now = start
        /\ frame = [count |-> 0, dt |-> 0, todo |-> <<>>, running |-> FALSE]
        /\ grid = <<>>
        /\ global_total_kills = 0
        /\ hits = <<>>
        /\ last_update = [id |-> None, dead |-> FALSE, returned |-> TRUE]
        /\ born_of = <<>>
        /\ eaten = NothingEaten

\* The lineage tree after the founders were added to it.
RECURSIVE RegisterFounders(_, _)
RegisterFounders(ns, ids) ==
    IF ids = <<>> THEN ns
    ELSE RegisterFounders(AddCreature(ns, Head(ids), NoParents), Tail(ids))

InitSimTree ==
    /\ nodes = RegisterFounders(<<>>, IssueIds(NumFounders, 1))
    /\ current_generation = 0
    /\ registered_in_order = TRUE

\* The simulation part of a state in which the simulation does not run.
NoSim ==
    /\ creatures = <<>>
    /\ cr = <<>>
    /\ id_counter = 1
    /\ now = 0
    /\ frame = [count |-> 0, dt |-> 0, todo |-> <<>>, running |-> FALSE]
    /\ grid = <<>>
    /\ global_total_kills = 0
    /\ hits = <<>>
    /\ last_update = [id |-> None, dead |-> FALSE, returned |-> TRUE]
    /\ issued = <<>>
    /\ born_of = <<>>
    /\ eaten = NothingEaten

\* The head of a frame of the main loop: the clock has advanced by dt, the grid is
\* built from the list, and "for c in creatures[:]" starts on a copy of the list.
BeginFrame(dt) ==
    /\ ~frame.running
    /\ frame.count < MaxTicks
    /\ now' = now + dt
    /\ frame' = [count |-> frame.count + 1, dt |-> dt, todo |-> creatures, running |-> TRUE]
    /\ grid' = BuildSpatialGrid(cr, creatures)
    /\ UNCHANGED <<creatures, cr, id_counter, global_total_kills, hits, last_update,
                   issued, born_of, eaten>>
    /\ UNCHANGED <<foodVars, treeVars, probeVars>>

\* handle_child_eater(c, creatures): the first creature of the list, not c, that is
\* younger than its maturity_age, has health above 0 and is nearer than 30 px
\* (None: nobody, or c does not carry Child Eater).
ChildEaterPrey(table, list, c) ==
    IF "Child Eater" \notin table[c].mutations THEN None
    ELSE LET prey == SelectSeq(list, LAMBDA o :
                        /\ o # c
                        /\ table[o].age < table[o].maturity_age
                        /\ table[o].health > 0
                        /\ Abs(table[o].x - table[c].x) < CHILD_EATER_RADIUS * Scale)
         IN IF prey = <<>> THEN None ELSE Head(prey)

\* handle_child_eater(c, creatures): "other.health = 0" and the meal.
HandleChildEater(table, c, prey) ==
    IF prey = None THEN table
    ELSE [table EXCEPT ![prey].health = 0,
                       ![c].hunger = Min(100 * Scale, @ + 50 * Scale)]

\* "Always check for all mutation behaviors": the handlers the main loop calls on
\* c after its update, whether or not c was removed, given the list they see.
AfterUpdate(table, list, c) ==
    /\ cr' = HandleChildEater(table, c, ChildEaterPrey(table, list, c))
    /\ eaten' = [by |-> IF ChildEaterPrey(table, list, c) = None THEN None ELSE c,
                 child |-> ChildEaterPrey(table, list, c)]

\* The main loop's handling of what c.update returned: when it returned False the
\* removal from the list with mark_creature_dead_in_tree; then the handlers.
Settle(self, res) ==
    /\ global_total_kills' = res.w.kills
    /\ hits' = res.w.hits
    /\ last_update' = [id |-> self, dead |-> res.dead, returned |-> res.returned]
    /\ creatures' = IF res.returned THEN creatures ELSE Remove(creatures, self)
    /\ nodes' = IF res.returned THEN nodes ELSE MarkCreatureDead(nodes, self, now)
    /\ AfterUpdate(res.w.cr, IF res.returned THEN creatures ELSE Remove(creatures, self), self)

\* One turn of "for c in creatures[:]": c.update(...) and its handling.  The
\* handlers called after it do nothing for creatures that carry only Paranoia or
\* Dominant; handle_child_eater is the one that acts for a carrier of Child Eater.
UpdateCreature ==
    /\ frame.running
    /\ frame.todo # <<>>
    /\ \E r \in Rolls(creatures, Head(frame.todo)) :
          Settle(Head(frame.todo),
                 Update([cr |-> cr, kills |-> global_total_kills, hits |-> <<>>,
                         contested |-> FALSE],
                        creatures, grid, Head(frame.todo), now, frame.dt, r))
    /\ frame' = [frame EXCEPT !.todo = Tail(@)]
    /\ UNCHANGED <<id_counter, now, grid, issued, born_of>>
    /\ UNCHANGED <<current_generation, registered_in_order>>
    /\ UNCHANGED <<foodVars, probeVars>>

\* "child = c.make_offspring(father); creatures.append(child)", count times: the
\* child is built, registered in the lineage tree under its parents, and listed.
RECURSIVE Bear(_, _, _, _, _)
Bear(b, mother, father, count, sex) ==
    IF count = 0 THEN b
    ELSE LET id == b.id_counter
             child == MakeOffspring(b.cr[mother], b.cr[father], id, sex)
             tree == AddCreature(b.nodes, id, ParentIds(b.cr[mother], b.cr[father]))
         IN Bear([cr |-> [i \in DOMAIN b.cr \cup {id} |-> IF i = id THEN child ELSE b.cr[i]],
                  creatures |-> Append(b.creatures, id),
                  id_counter |-> NextIdCounter(id),
                  nodes |-> tree,
                  current_generation |-> Max(b.current_generation, tree[id].generation),
                  issued |-> Append(b.issued, id),
                  born_of |-> [i \in DOMAIN b.born_of \cup {id} |->
                                  IF i = id THEN <<mother, father>> ELSE b.born_of[i]]],
                 mother, father, count - 1, sex)

\* "for father, count in c.pending_offspring"
BearPendingFirstOnly(b, mother, pending, sex) ==
    Bear(b, mother, Head(pending)[1], Head(pending)[2], sex)

RECURSIVE BearPending(_, _, _, _)
BearPending(b, mother, pending, sex) ==
    IF pending = <<>> THEN b
    ELSE BearPending(Bear(b, mother, Head(pending)[1], Head(pending)[2], sex),
                     mother, Tail(pending), sex)

\* The birth logic of the main loop, from the k-th creature of the list on.
RECURSIVE BirthLoop(_, _, _, _)
BirthLoop(b, k, t, sex) ==
    IF k > Len(b.creatures) THEN b
    ELSE LET c == b.creatures[k]
             s == b.cr[c]
         IN IF s.sex = "F" /\ s.pending_offspring # <<>> /\ t >= s.gestation_timer
            THEN BirthLoop([BearPending(b, c, s.pending_offspring, sex)
                               EXCEPT !.cr[c].pending_offspring = <<>>],
                           k + 1, t, sex)
            ELSE BirthLoop(b, k + 1, t, sex)

\* The sexes drawn for the children of one frame.
SexSample == {"F", "M"}

\* The list, the objects, the counter and the tree as the birth logic left them.
Born(b) ==
    /\ Len(b.issued) <= MaxCreatures
    /\ cr' = b.cr
    /\ creatures' = b.creatures
    /\ id_counter' = b.id_counter
    /\ nodes' = b.nodes
    /\ current_generation' = b.current_generation
    /\ issued' = b.issued
    /\ born_of' = b.born_of

\* The tail of a frame: the birth logic, after every creature of the copy was updated.
BirthLogic(sex) ==
    /\ frame.running
    /\ frame.todo = <<>>
    /\ Born(BirthLoop([cr |-> cr, creatures |-> creatures, id_counter |-> id_counter,
                        nodes |-> nodes, current_generation |-> current_generation,
                        issued |-> issued, born_of |-> born_of], 1, now, sex))
    /\ frame' = [frame EXCEPT !.running = FALSE]
    /\ UNCHANGED <<now, grid, global_total_kills, hits, last_update, registered_in_order,
                   eaten>>
    /\ UNCHANGED <<foodVars, probeVars>>

Next ==
    \/ \E dt \in FrameMsSample : BeginFrame(dt)
    \/ UpdateCreature
    \/ \E sex \in SexSample : BirthLogic(sex)

(***************************************************************************)
(* Part IV: functions studied on their own                                 *)
(***************************************************************************)

\* No function is under study.
NoProbe == probe = [op |-> "none"]

\* ---- the target selection of Creature.update

\* A creature at x = 500 that needs a resource, the food it sees and the pond
\* find_nearest_pond gives it, each absent, near or far.
NeedSample == {0, 40 * Scale, 69 * Scale, 70 * Scale, 90 * Scale, 100 * Scale}
SeenFoodSample == {NoTarget, [kind |-> "food", x |-> 505 * Scale],
                   [kind |-> "food", x |-> 550 * Scale]}
SeenPondSample == {NoTarget, [kind |-> "pond", x |-> 503 * Scale],
                   [kind |-> "pond", x |-> 560 * Scale]}

InitPick ==
    \E h \in NeedSample, t \in NeedSample, f \in SeenFoodSample, p \in SeenPondSample :
        /\ h < 70 * Scale \/ t < 70 * Scale
        /\ probe = [op |-> "seen", x |-> 500 * Scale, hunger |-> h, thirst |-> t,
                    food |-> f, pond |-> p]

PickTarget ==
    /\ probe.op = "seen"
    /\ probe' = [op |-> "picked", x |-> probe.x, hunger |-> probe.hunger,
                 thirst |-> probe.thirst, food |-> probe.food, pond |-> probe.pond,
                 target |-> ResourceTarget(probe.hunger, probe.thirst,
                                           probe.food, probe.pond)]
    /\ UNCHANGED <<foodVars, treeVars, simVars>>

NextPick == PickTarget

\* ---- Creature.reproduce

MaxCalls == 3

\* A female (id 1) and a male (id 2) near each other, any time into their lives:
\* ages in thousandths of max_age, gestation_duration at both ends of its range,
\* fed or not, with or without the mutations reproduce asks about.
AgeSample == {50, 250, 850, 950}
GestationSample == {30000, 60000}
FedSample == {40 * Scale, 100 * Scale}
MotherMutations == {{}, {"Brood Sac"}}
FatherMutations == {{}, {"Twin Gene"}, {"Loyal Mate"}}

Partner(id, sex, x, age, ration, duration, mutations) ==
    [Creature(id, [k \in DOMAIN Draws \cup {"sex", "mutations", "max_health", "attack", "x",
                                             "hunger", "thirst", "father_id"} |->
                      IF k = "sex" THEN sex
                      ELSE IF k = "mutations" THEN mutations
                      ELSE IF k = "max_health" THEN 100 * Scale
                      ELSE IF k = "attack" THEN Scale
                      ELSE IF k = "x" THEN x
                      ELSE IF k \in {"hunger", "thirst"} THEN ration
                      ELSE IF k = "father_id" THEN None
                      ELSE IF k = "gestation_duration" THEN duration
                      ELSE Draws[k]])
        EXCEPT !.age = (age * @) \div 250]

InitMate ==
    \E gap \in GapSample, fa \in AgeSample, ma \in AgeSample, ration \in FedSample,
       gd \in GestationSample, fm \in MotherMutations, mm \in FatherMutations :
        /\ creatures = <<1, 2>>
        /\ cr = <<Partner(1, "F", FounderX(1, gap), fa, 100 * Scale, gd, fm),
                  Partner(2, "M", FounderX(2, gap), ma, ration, 30000, mm)>>
        /\ grid = BuildSpatialGrid(cr, creatures)
        /\ issued = <<1, 2>>
        /\ id_counter = 3
        /\ now = 1000
        /\ frame = [count |-> 0, dt |-> 0, todo |-> <<>>, running |-> FALSE]
        /\ global_total_kills = 0
        /\ hits = <<>>
        /\ last_update = [id |-> None, dead |-> FALSE, returned |-> TRUE]
        /\ born_of = <<>>
        /\ eaten = NothingEaten
        /\ probe = [op |-> "none", calls |-> 0, self |-> None, infertile |-> FALSE]

\* One call "self.reproduce(creatures, age_factor, grid)" at tick now, with the
\* outcome of the infertility roll should the call come to it.
ReproduceCall(self, infertile) ==
    /\ probe.calls < MaxCalls
    /\ cr' = Reproduce([cr |-> cr, kills |-> global_total_kills, hits |-> <<>>,
                        contested |-> FALSE], self, grid, now, infertile).cr
    /\ probe' = [op |-> "reproduce", calls |-> probe.calls + 1, self |-> self,
                 infertile |-> infertile]
    /\ UNCHANGED <<creatures, id_counter, now, frame, grid, global_total_kills, hits,
                   last_update, issued, born_of, eaten>>
    /\ UNCHANGED <<foodVars, treeVars>>

\* A frame goes by between two calls.
FramePasses(dt) ==
    /\ probe.op = "reproduce"
    /\ now' = now + dt
    /\ probe' = [probe EXCEPT !.op = "frame"]
    /\ UNCHANGED <<creatures, cr, id_counter, frame, grid, global_total_kills, hits,
                   last_update, issued, born_of, eaten>>
    /\ UNCHANGED <<foodVars, treeVars>>

NextMate ==
    \/ \E self \in {1, 2}, infertile \in BOOLEAN : ReproduceCall(self, infertile)
    \/ \E dt \in FrameMsSample : FramePasses(dt)

\* ---- get_neighbors

\* Two entities of one kind on the line, the point asked about, and the radius:
\* CREATURE_RADIUS, twice that, and the vision a creature can have.
PlaceSample == {0, 49 * Scale, 50 * Scale, 130 * Scale, 170 * Scale, 260 * Scale}
AskedSample == {40 * Scale, 100 * Scale, 125 * Scale}
RadiusSample == {CREATURE_RADIUS * Scale, 2 * CREATURE_RADIUS * Scale, Draws.vision}

InitGrid ==
    \E a \in PlaceSample, b \in PlaceSample, x \in AskedSample, radius \in RadiusSample :
        probe = [op |-> "asked", table |-> <<[x |-> a], [x |-> b]>>, x |-> x,
                 radius |-> radius]

\* "get_neighbors(grid, x, y, kind, radius)" on the grid build_spatial_grid makes
\* of the entities.
AskNeighbors ==
    /\ probe.op = "asked"
    /\ probe' = [op |-> "answered", table |-> probe.table, x |-> probe.x,
                 radius |-> probe.radius,
                 neighbors |-> GetNeighbors(BuildSpatialGrid(probe.table, <<1, 2>>),
                                            probe.table, probe.x, probe.radius)]
    /\ UNCHANGED <<foodVars, treeVars, simVars>>

NextGrid == AskNeighbors

\* ---- the incest interval and the mutation roll of make_offspring

MAX_DEPTH == 10
\* base_mega_rare = 0.0000001 and base_normal = 0.00001, in units of 0.0000001
BASE_MEGA_RARE == 1
BASE_NORMAL == 100

\* The object the simulation's name family_tree is bound to: the FamilyTree() made
\* when familytree.py is imported.  initialize_family_tree() then binds the
\* module's own global to a new FamilyTree, to which add_creature_to_tree adds;
\* the imported name keeps the first object, which never gets a node.
ImportedFamilyTree == <<>>

\* "node = family_tree.get_node(aid); if node and node.parent_ids: ..."
ParentsIn(tree, aid) ==
    IF aid \in DOMAIN tree /\ tree[aid].parent_ids # NoParents
    THEN {pid \in Range(tree[aid].parent_ids) : pid # None}
    ELSE {}

\* The loop of find_most_recent_common_ancestor from depth on.
RECURSIVE CommonAncestorDepth(_, _, _, _, _, _)
CommonAncestorDepth(tree, ancestors1, ancestors2, current1, current2, depth) ==
    IF depth > MAX_DEPTH THEN MAX_DEPTH + 1
    ELSE LET next1 == UNION {ParentsIn(tree, aid) : aid \in current1}
             next2 == UNION {ParentsIn(tree, aid) : aid \in current2}
         IN IF (ancestors1 \cup next1) \cap (ancestors2 \cup next2) # {}
            THEN depth
            ELSE CommonAncestorDepth(tree, ancestors1 \cup next1, ancestors2 \cup next2,
                                     next1, next2, depth + 1)

FindMostRecentCommonAncestor(tree, id1, id2) ==
    CommonAncestorDepth(tree, {id1}, {id2}, {id1}, {id2}, 1)

\* "scale = min(10, 10 / interval) if interval >= 1 else 1", as a fraction
\* <<numerator, denominator>>.
IncestScale(interval) ==
    IF interval >= 1
    THEN (IF 10 * interval <= 10 THEN <<10, 1>> ELSE <<10, interval>>)
    ELSE <<1, 1>>

\* base * scale, as a fraction in units of 0.0000001.
Threshold(base, scale) == <<base * scale[1], scale[2]>>

\* The tier the roll falls in: "if roll < base_mega_rare * scale: ... elif roll <
\* base_normal * scale: ...".
Tier(roll, scale) ==
    IF roll * Threshold(BASE_MEGA_RARE, scale)[2] < Threshold(BASE_MEGA_RARE, scale)[1]
    THEN "mega_rare"
    ELSE IF roll * Threshold(BASE_NORMAL, scale)[2] < Threshold(BASE_NORMAL, scale)[1]
    THEN "normal"
    ELSE "none"

\* A lineage as add_creature_to_tree built it: founders 1, 2 and 3; 4 and 5 born
\* to 1 and 2; 6 born to 4 and 3; 7 born to 5 and 6.
Lineage ==
    AddCreature(AddCreature(AddCreature(AddCreature(AddCreature(AddCreature(AddCreature(
        <<>>, 1, NoParents), 2, NoParents), 3, NoParents),
        4, <<1, 2>>), 5, <<1, 2>>), 6, <<4, 3>>), 7, <<5, 6>>)

\* random.random(), in units of 0.0000001
RollSample == {0, 1, 5, 9, 10, 50, 99, 100, 999, 1000}

InitIncest ==
    \E m \in DOMAIN Lineage, f \in DOMAIN Lineage, roll \in RollSample :
        /\ m # f
        /\ probe = [op |-> "mated", tree |-> Lineage, mother_id |-> m, father_id |-> f,
                    roll |-> roll]

\* The tail of make_offspring: the interval, the scale, and the mutation roll.
MutationRoll ==
    /\ probe.op = "mated"
    /\ probe' = [op |-> "rolled", tree |-> probe.tree, mother_id |-> probe.mother_id,
                 father_id |-> probe.father_id, roll |-> probe.roll,
                 interval |-> FindMostRecentCommonAncestor(ImportedFamilyTree,
                                  probe.mother_id, probe.father_id),
                 scale |-> IncestScale(FindMostRecentCommonAncestor(ImportedFamilyTree,
                                  probe.mother_id, probe.father_id)),
                 tier |-> Tier(probe.roll,
                               IncestScale(FindMostRecentCommonAncestor(ImportedFamilyTree,
                                  probe.mother_id, probe.father_id)))]
    /\ UNCHANGED <<foodVars, treeVars, simVars>>

NextIncest == MutationRoll

\* ---- the lineage queries of FamilyTree

MaxKinId == 5          \* the creatures registered are 1..MaxKinId, in this order
MaxDead == 1           \* at most MaxDead of them are marked dead

\* The ids of a set in the order Python iterates a set of small ints.
RECURSIVE Ascending(_)
Ascending(ids) ==
    IF ids = {} THEN <<>>
    ELSE LET least == CHOOSE i \in ids : \A j \in ids : i <= j
         IN <<least>> \o Ascending(ids \ {least})

\* One pass of 'for pid in [mother_id, father_id]' in add_ancestors, and
\* add_ancestors itself; st holds the list ancestors and the set visited, and
\* q the arguments max_generations and living_only.
RECURSIVE AddAncestors(_, _, _, _, _)
RECURSIVE VisitParent(_, _, _, _, _)
VisitParent(ns, st, pid, depth, q) ==
    IF pid # None /\ pid \in DOMAIN ns /\ pid \notin st.visited
    THEN AddAncestors(ns,
             [ancestors |-> IF ~q.living_only \/ ns[pid].alive
                            THEN Append(st.ancestors, pid) ELSE st.ancestors,
              visited |-> st.visited \cup {pid}],
             pid, depth + 1, q)
    ELSE st

AddAncestors(ns, st, node, depth, q) ==
    IF depth >= q.max_generations \/ ns[node].parent_ids = NoParents
    THEN st
    ELSE VisitParent(ns, VisitParent(ns, st, ns[node].parent_ids[1], depth, q),
                     ns[node].parent_ids[2], depth, q)

\* FamilyTree.get_ancestors: the ids of the nodes it returns, in order.
GetAncestors(ns, creature_id, max_generations, living_only) ==
    IF creature_id \notin DOMAIN ns
    THEN <<>>
    ELSE AddAncestors(ns, [ancestors |-> <<>>, visited |-> {}], creature_id, 0,
                      [max_generations |-> max_generations,
                       living_only |-> living_only]).ancestors

\* 'for child_id in node.children_ids' in add_descendants, and add_descendants.
RECURSIVE AddDescendants(_, _, _, _, _)
RECURSIVE VisitChildren(_, _, _, _, _)
VisitChildren(ns, st, children, depth, q) ==
    IF children = <<>>
    THEN st
    ELSE VisitChildren(ns,
             IF Head(children) \in DOMAIN ns /\ Head(children) \notin st.visited
             THEN AddDescendants(ns,
                      [descendants |-> IF ~q.living_only \/ ns[Head(children)].alive
                                       THEN Append(st.descendants, Head(children))
                                       ELSE st.descendants,
                       visited |-> st.visited \cup {Head(children)}],
                      Head(children), depth + 1, q)
             ELSE st,
             Tail(children), depth, q)

AddDescendants(ns, st, node, depth, q) ==
    IF depth >= q.max_generations
    THEN st
    ELSE VisitChildren(ns, st, Ascending(ns[node].children_ids), depth, q)

\* FamilyTree.get_descendants
GetDescendants(ns, creature_id, max_generations, living_only) ==
    IF creature_id \notin DOMAIN ns
    THEN <<>>
    ELSE AddDescendants(ns, [descendants |-> <<>>, visited |-> {}], creature_id, 0,
                        [max_generations |-> max_generations,
                         living_only |-> living_only]).descendants

\* FamilyTree.get_siblings
GetSiblings(ns, creature_id) ==
    IF creature_id \notin DOMAIN ns \/ ns[creature_id].parent_ids = NoParents
    THEN <<>>
    ELSE LET mother_id == ns[creature_id].parent_ids[1]
         IN IF mother_id # None /\ mother_id \in DOMAIN ns
            THEN Ascending({child_id \in ns[mother_id].children_ids :
                               child_id # creature_id /\ child_id \in DOMAIN ns})
            ELSE <<>>

FULL_SIBLINGS == 250   \* return 0.25, in thousandths

\* calculate_inbreeding_coefficient without the test of the parents' own parents
CalculateInbreedingCoefficientOfAnyPair(ns, creature_id) ==
    IF creature_id \notin DOMAIN ns \/ ns[creature_id].parent_ids = NoParents
    THEN 0
    ELSE IF /\ ns[creature_id].parent_ids[1] \in DOMAIN ns
            /\ ns[creature_id].parent_ids[2] \in DOMAIN ns
            /\ ns[ns[creature_id].parent_ids[1]].parent_ids =
               ns[ns[creature_id].parent_ids[2]].parent_ids
         THEN FULL_SIBLINGS
         ELSE 0

\* FamilyTree.calculate_inbreeding_coefficient, in thousandths
CalculateInbreedingCoefficient(ns, creature_id) ==
    IF creature_id \notin DOMAIN ns \/ ns[creature_id].parent_ids = NoParents
    THEN 0
    ELSE LET mother_id == ns[creature_id].parent_ids[1]
             father_id == ns[creature_id].parent_ids[2]
         IN IF /\ mother_id # None /\ father_id # None
               /\ mother_id \in DOMAIN ns /\ father_id \in DOMAIN ns
               /\ ns[mother_id].parent_ids # NoParents
               /\ ns[father_id].parent_ids # NoParents
               /\ ns[mother_id].parent_ids = ns[father_id].parent_ids
            THEN FULL_SIBLINGS
            ELSE 0

STATS_DEPTH == 10      \* max_generations=10 in get_family_stats

\* FamilyTree.get_family_stats: {} for an id without a node, else the counts.
GetFamilyStats(ns, creature_id) ==
    IF creature_id \notin DOMAIN ns
    THEN [keys |-> {}]
    ELSE [keys |-> {"total_ancestors", "total_descendants", "siblings_count",
                    "children_count", "inbreeding_coefficient"},
          total_ancestors |-> Len(GetAncestors(ns, creature_id, STATS_DEPTH, FALSE)),
          total_descendants |-> Len(GetDescendants(ns, creature_id, STATS_DEPTH, FALSE)),
          siblings_count |-> Len(GetSiblings(ns, creature_id)),
          children_count |-> Cardinality(ns[creature_id].children_ids),
          inbreeding_coefficient |-> CalculateInbreedingCoefficient(ns, creature_id)]

\* The parent_ids a creature is registered with: None for a founder, else
\* (mother_id, father_id) with a registered mother and another creature for
\* father, registered or never registered.
KinParents ==
    {NoParents} \cup
    {pair \in (DOMAIN nodes) \X (DOMAIN nodes \cup {MaxKinId + 1}) : pair[1] # pair[2]}

\* The ids asked about: the registered ones and one never registered.
KinIds == 1..(MaxKinId + 1)
DepthSample == {1, 2, 5}

\* A query is asked of the tree as it stands; its answer ends the behaviour.

\* add_creature_to_tree for the next id
RegisterKin ==
    /\ probe.op = "none"
    /\ Cardinality(DOMAIN nodes) < MaxKinId
    /\ \E parent_ids \in KinParents :
           AddCreatureToTree(Cardinality(DOMAIN nodes) + 1, parent_ids)
    /\ UNCHANGED <<foodVars, simVars, probeVars>>

\* mark_creature_dead_in_tree for a living creature
BuryKin ==
    /\ probe.op = "none"
    /\ Cardinality({i \in DOMAIN nodes : ~nodes[i].alive}) < MaxDead
    /\ \E id \in DOMAIN nodes :
           /\ nodes[id].alive
           /\ MarkCreatureDeadInTree(id, 1)
    /\ UNCHANGED <<foodVars, simVars, probeVars>>

AskAncestors ==
    /\ probe.op = "none"
    /\ \E id \in KinIds, depth \in DepthSample, living_only \in BOOLEAN :
           probe' = [op |-> "get_ancestors", creature_id |-> id,
                     max_generations |-> depth, living_only |-> living_only,
                     result |-> GetAncestors(nodes, id, depth, living_only)]
    /\ UNCHANGED <<foodVars, treeVars, simVars>>

AskDescendants ==
    /\ probe.op = "none"
    /\ \E id \in KinIds, depth \in DepthSample, living_only \in BOOLEAN :
           probe' = [op |-> "get_descendants", creature_id |-> id,
                     max_generations |-> depth, living_only |-> living_only,
                     result |-> GetDescendants(nodes, id, depth, living_only)]
    /\ UNCHANGED <<foodVars, treeVars, simVars>>

AskSiblings ==
    /\ probe.op = "none"
    /\ \E id \in KinIds :
           probe' = [op |-> "get_siblings", creature_id |-> id,
                     result |-> GetSiblings(nodes, id)]
    /\ UNCHANGED <<foodVars, treeVars, simVars>>

AskInbreeding ==
    /\ probe.op = "none"
    /\ \E id \in KinIds :
           probe' = [op |-> "calculate_inbreeding_coefficient", creature_id |-> id,
                     result |-> CalculateInbreedingCoefficient(nodes, id)]
    /\ UNCHANGED <<foodVars, treeVars, simVars>>

AskFamilyStats ==
    /\ probe.op = "none"
    /\ \E id \in KinIds :
           probe' = [op |-> "get_family_stats", creature_id |-> id,
                     result |-> GetFamilyStats(nodes, id)]
    /\ UNCHANGED <<foodVars, treeVars, simVars>>

NextKin ==
    \/ RegisterKin
    \/ BuryKin
    \/ AskAncestors
    \/ AskDescendants
    \/ AskSiblings
    \/ AskInbreeding
    \/ AskFamilyStats

\* ---- mutation gains, packs, and what they do to stats and positions

MaxTurns == 2          \* turns in the main loop taken by the creatures
MaxPop == 3            \* the two founders and one child

\* The part of MUTATIONS studied, and the stat deltas of its entries.
GeneCatalog ==
    {"Pack mentality", "Radioactive", "Fragmented DNA", "Better Lungs", "Fertile"}
BETTER_LUNGS_MAX_HEALTH == 10
FERTILE_INFERTILITY == -15
FERTILE_OFFSPRING_COUNT == 1
Effect(mut) ==
    [max_health |-> IF mut = "Better Lungs" THEN BETTER_LUNGS_MAX_HEALTH ELSE 0,
     infertility |-> IF mut = "Fertile" THEN FERTILE_INFERTILITY ELSE 0,
     offspring_count |-> IF mut = "Fertile" THEN FERTILE_OFFSPRING_COUNT ELSE 0]
\* The mutations the random.choice of a gain is taken to draw.
GainSample == {"Better Lungs", "Fertile"}
HasStaticDeltas(mut) == mut \in {"Better Lungs", "Fertile"}

\* A creature as far as its genes, its stats and its place go. mutations is the
\* list self.mutations. gained lists the mutations the creature got by a birth
\* roll, an exposure, Fragmented DNA or a conversion, and applied those
\* apply_mutation_effect was called with for it: both are bookkeeping.
Carrier(x, mutations, max_health, infertility, offspring_count) ==
    [x |-> x, speed |-> 2 * Scale, mutations |-> mutations, pack_id |-> None,
     max_health |-> max_health, health |-> max_health * Scale,
     infertility |-> infertility, offspring_count |-> offspring_count,
     attack |-> Scale, defense |-> Scale, gained |-> <<>>, applied |-> <<>>]

\* apply_mutation_effect(creature, mut)
ApplyMutationEffect(c, mut) ==
    [c EXCEPT !.max_health = Max(1, @ + Effect(mut).max_health),
              !.health = IF mut = "Better Lungs"
                         THEN Min(@, (c.max_health + Effect(mut).max_health) * Scale)
                         ELSE @,
              !.infertility = @ + Effect(mut).infertility,
              !.offspring_count = Clamp(1, 5, @ + Effect(mut).offspring_count),
              !.applied = Append(@, mut)]

\* other.mutations.append(new_mut); apply_mutation_effect(other, new_mut)
Mutated(c, mut) ==
    ApplyMutationEffect([c EXCEPT !.mutations = Append(@, mut),
                                  !.gained = Append(@, mut)], mut)

\* list.remove(lost): the list without the first lost.
RECURSIVE Removed(_, _)
Removed(list, lost) ==
    IF list = <<>> THEN <<>>
    ELSE IF Head(list) = lost THEN Tail(list)
    ELSE <<Head(list)>> \o Removed(Tail(list), lost)

\* handle_fragmented_dna once the 5 s timer has run out: f says what the rolls
\* chose, a gain of f.mut or the loss of f.mut.
Forbidden == {"Pack mentality", "Fragmented DNA"}
HandleFragmentedDna(pop, c, f) ==
    IF "Fragmented DNA" \notin Range(pop[c].mutations) \/ f.kind = "none"
    THEN pop
    ELSE IF f.kind = "gain"
    THEN [pop EXCEPT ![c] = Mutated(@, f.mut)]
    ELSE [pop EXCEPT ![c].mutations = Removed(@, f.mut)]

\* What the rolls of handle_fragmented_dna can choose for c.
FragmentChoices(pop, c) ==
    {[kind |-> "none", mut |-> "none"]} \cup
    {[kind |-> "gain", mut |-> m] : m \in (GainSample \ Range(pop[c].mutations)) \ Forbidden}
    \cup {[kind |-> "lose", mut |-> m] : m \in Range(pop[c].mutations) \ Forbidden}

\* Creature.update's movement, step px along x, and "Keep creature within bounds".
Stepped(pop, c, step) == [pop EXCEPT ![c].x = ClampToMap(@ + step)]

\* Pack.members of pack p, and the id the next Pack gets (pack_counter).
Members(pop, p) == {i \in DOMAIN pop : pop[i].pack_id = p}
NextPackId(pop) == Max(0, CHOOSE p \in {pop[i].pack_id : i \in DOMAIN pop} :
                              \A i \in DOMAIN pop : pop[i].pack_id <= p) + 1
PACK_LIMIT == 10
CONVERT_RADIUS == 40
CENTRE_SLACK == 30

\* "Try to join a nearby pack": the packs of the others that carry Pack mentality.
Joinable(pop, c) ==
    {i \in DOMAIN pop \ {c} : /\ pop[i].pack_id # None
                              /\ "Pack mentality" \in Range(pop[i].mutations)
                              /\ Cardinality(Members(pop, pop[i].pack_id)) < PACK_LIMIT}

\* "Try to convert nearby non-pack creatures", from creature i of the list on.
RECURSIVE Convert(_, _, _)
Convert(pop, c, i) ==
    IF i > Len(pop) THEN pop
    ELSE Convert(IF /\ i # c
                    /\ pop[i].pack_id = None
                    /\ Cardinality(Members(pop, pop[c].pack_id)) < PACK_LIMIT
                    /\ Abs(pop[i].x - pop[c].x) < CONVERT_RADIUS * Scale
                 THEN [pop EXCEPT ![i] = [Mutated(@, "Pack mentality")
                                             EXCEPT !.pack_id = pop[c].pack_id]]
                 ELSE pop,
                 c, i + 1)

\* The sum of the x of the creatures ids.
RECURSIVE SumX(_, _)
SumX(pop, ids) ==
    IF ids = {} THEN 0
    ELSE LET i == CHOOSE j \in ids : TRUE IN pop[i].x + SumX(pop, ids \ {i})

\* cos(atan2(0, d)): the direction along x toward a point d px further.
Toward(d) == IF d >= 0 THEN 1 ELSE -1

\* "Move toward pack center if not close"
Centred(pop, c) ==
    IF Abs(pop[c].x - SumX(pop, Members(pop, pop[c].pack_id))
                        \div Cardinality(Members(pop, pop[c].pack_id)))
          > CENTRE_SLACK * Scale
    THEN [pop EXCEPT ![c].x = @ + pop[c].speed *
              Toward(SumX(pop, Members(pop, pop[c].pack_id))
                        \div Cardinality(Members(pop, pop[c].pack_id)) - pop[c].x)]
    ELSE pop

\* "Defend home biome", from creature i of the list on: all of the map is taken
\* for one biome.
RECURSIVE Defend(_, _, _)
Defend(pop, c, i) ==
    IF i > Len(pop) THEN pop
    ELSE Defend(IF /\ i # c
                   /\ pop[i].pack_id # pop[c].pack_id
                   /\ Abs(pop[i].x - pop[c].x) < CONVERT_RADIUS * Scale
                THEN [pop EXCEPT ![c].x = @ + pop[c].speed * Toward(pop[i].x - pop[c].x),
                                 ![i].health = IF @ > 0
                                               THEN @ - Max(0, pop[c].attack - pop[i].defense)
                                               ELSE @]
                ELSE pop,
                c, i + 1)

\* "Pack member collision avoidance", from creature i of the list on.
RECURSIVE Avoid(_, _, _)
Avoid(pop, c, i) ==
    IF i > Len(pop) THEN pop
    ELSE Avoid(IF /\ i # c
                  /\ pop[i].pack_id = pop[c].pack_id
                  /\ Abs(pop[i].x - pop[c].x) < 2 * CREATURE_RADIUS * Scale
                  /\ Abs(pop[i].x - pop[c].x) > 0
               THEN [pop EXCEPT ![c].x = @ + Sign(pop[c].x - pop[i].x) *
                        ((2 * CREATURE_RADIUS * Scale - Abs(pop[i].x - pop[c].x)) \div 2)]
               ELSE pop,
               c, i + 1)

\* handle_pack_mentality from "form a new pack" on.
Formed(pop, c) ==
    IF pop[c].pack_id = None THEN [pop EXCEPT ![c].pack_id = NextPackId(pop)] ELSE pop
PackTurn(pop, c) == Avoid(Defend(Centred(Convert(Formed(pop, c), c, 1), c), c, 1), c, 1)

\* handle_pack_mentality(creature, all_creatures, get_biome) for creatures that
\* are fed (hunger and thirst of 70 and more) with food in their biome.
HandlePackMentality(pop, c) ==
    IF "Pack mentality" \notin Range(pop[c].mutations)
    THEN pop
    ELSE IF pop[c].pack_id = None /\ Joinable(pop, c) # {}
    THEN [pop EXCEPT ![c].pack_id =
              pop[CHOOSE i \in Joinable(pop, c) : \A j \in Joinable(pop, c) : i <= j].pack_id]
    ELSE PackTurn(pop, c)

\* handle_radioactive: r names the one creature whose mutation roll succeeded and
\* the mutation it drew, or nobody.
RADIATION_RADIUS == 30
RADIATION_DAMAGE == 1500
RADIATION_SELF_DAMAGE == 150
Exposed(pop, c) ==
    {i \in DOMAIN pop \ {c} : /\ "Radioactive" \notin Range(pop[i].mutations)
                              /\ Abs(pop[i].x - pop[c].x) < RADIATION_RADIUS * Scale}
HandleRadioactive(pop, c, r) ==
    IF "Radioactive" \notin Range(pop[c].mutations)
    THEN pop
    ELSE [i \in DOMAIN pop |->
             IF i = c THEN [pop[i] EXCEPT !.health = @ - RADIATION_SELF_DAMAGE]
             ELSE IF i \notin Exposed(pop, c) THEN pop[i]
             ELSE IF r.victim = i
             THEN Mutated([pop[i] EXCEPT !.health = @ - RADIATION_DAMAGE], r.mut)
             ELSE [pop[i] EXCEPT !.health = @ - RADIATION_DAMAGE]]

\* What the rolls of handle_radioactive can choose.
ExposureChoices(pop, c) ==
    {[victim |-> None, mut |-> "none"]} \cup
    {r \in [victim : Exposed(pop, c), mut : GainSample] :
        r.mut \notin Range(pop[r.victim].mutations)}

\* The creature's turn in the main loop as far as genes, packs and places go:
\* Creature.update (handle_fragmented_dna, the movement and its clamp,
\* handle_pack_mentality) and then handle_pack_mentality and handle_radioactive.
TurnOf(pop, c, f, step, r) ==
    HandleRadioactive(
        HandlePackMentality(
            HandlePackMentality(Stepped(HandleFragmentedDna(pop, c, f), c, step), c), c),
        c, r)

\* The list a set of mutations becomes (list(mutations)).
RECURSIVE ListOf(_)
ListOf(set) ==
    IF set = {} THEN <<>>
    ELSE LET m == CHOOSE x \in set : TRUE IN <<m>> \o ListOf(set \ {m})

\* Creature.make_offspring as far as genes and stats go: pct is the percentage
\* mutate() draws, first and second what the two mutation rolls add ("none" for a
\* roll above the thresholds).
InheritedMutations(mother, father) ==
    Range(mother.mutations) \cup
    (IF "Pack mentality" \in Range(mother.mutations) \cup Range(father.mutations)
     THEN {"Pack mentality"} ELSE {})

Offspring(mother, father, pct, first, second) ==
    [Carrier(mother.x,
             ListOf(InheritedMutations(mother, father) \cup ({first} \ {"none"}))
                \o (IF second = "none" THEN <<>> ELSE <<second>>),
             Clamp(1, 100, (((mother.max_health + father.max_health) * pct) \div 200)),
             Clamp(1, 100, (((mother.infertility + father.infertility) * pct) \div 200)),
             Clamp(1, 5, (((mother.offspring_count + father.offspring_count) * pct) \div 200)))
        EXCEPT !.gained = (IF first = "none" THEN <<>> ELSE <<first>>) \o
                          (IF second = "none" THEN <<>> ELSE <<second>>)]

\* What the rolls can add: first a mutation the child does not inherit, by the
\* roll on child_mutations or, when that set is left empty, by the roll of
\* Creature.__init__; then a mutation the child does not have yet, by the roll
\* after the incest scaling.
RollChoices(mother, father) ==
    {roll \in [first : GainSample \cup {"none"}, second : GainSample \cup {"none"}] :
        /\ roll.first \notin InheritedMutations(mother, father)
        /\ roll.second \notin InheritedMutations(mother, father)
        /\ roll.second = "none" \/ roll.second # roll.first}

MutateSample == {110}
XSample == {0, 5 * Scale, MAP_WIDTH * Scale}
FounderGenes == {<<>>} \cup {<<m>> : m \in GeneCatalog}

\* Two founders, creature 1 the mother-to-be and creature 2 the father-to-be 5 px
\* from the left edge, each with the one mutation or none Creature.__init__ rolled.
InitGenes ==
    \E x1 \in XSample, m1 \in FounderGenes, m2 \in FounderGenes :
        probe = [op |-> "genes", turns |-> 0,
                 pop |-> <<Carrier(x1, m1, 100, 10, 5), Carrier(5 * Scale, m2, 50, 50, 1)>>]

\* The turn of creature c in a frame.
TakeTurn ==
    /\ probe.op = "genes"
    /\ probe.turns < MaxTurns
    /\ \E c \in DOMAIN probe.pop, step \in {-1, 1} :
       \E f \in FragmentChoices(probe.pop, c) :
       \E r \in ExposureChoices(HandleFragmentedDna(probe.pop, c, f), c) :
           probe' = [probe EXCEPT !.turns = @ + 1,
                                  !.pop = TurnOf(@, c, f, step * probe.pop[c].speed, r)]
    /\ UNCHANGED <<foodVars, treeVars, simVars>>

\* The birth logic bears the child of creatures 1 and 2.
BearChild ==
    /\ probe.op = "genes"
    /\ Len(probe.pop) < MaxPop
    /\ \E pct \in MutateSample, roll \in RollChoices(probe.pop[1], probe.pop[2]) :
           probe' = [probe EXCEPT !.pop = Append(@,
                        Offspring(probe.pop[1], probe.pop[2], pct, roll.first, roll.second))]
    /\ UNCHANGED <<foodVars, treeVars, simVars>>

NextGenes == TakeTurn \/ BearChild

\* ---- the Rage State machine of one creature

MaxRageTime == 36000   \* the frames studied end by this tick count, in ms

RAGE_MS == 10000
EXHAUSTED_MS == 5000
RAGE_COOLDOWN_MS == 15000
FRAGMENT_MS == 5000
RAGE_MULT == 2000      \* return 2.0, 2.0, 2.0, in thousandths
EXHAUSTED_MULT == 500  \* return 0.5, 0.5, 0.5
NO_RAGE_MULT == 1000   \* return 1.0, 1.0, 1.0

\* "Enter rage if health < 30% and not on cooldown or already raging"
RageEntered(c, t) ==
    IF c._rage_state = "none" /\ c.health * 10 < 3 * c.max_health /\ t > c._rage_cooldown
    THEN [c EXCEPT !._rage_state = "rage", !._rage_timer = t + RAGE_MS,
                   !._rage_cooldown = t + RAGE_COOLDOWN_MS]
    ELSE c

\* "End rage, enter exhausted", and the same going straight back to 'none'
RageEndedToNone(c, t) ==
    IF c._rage_state = "rage" /\ t > c._rage_timer
    THEN [c EXCEPT !._rage_state = "none"]
    ELSE c

RageEnded(c, t) ==
    IF c._rage_state = "rage" /\ t > c._rage_timer
    THEN [c EXCEPT !._rage_state = "exhausted", !._rage_timer = t + EXHAUSTED_MS]
    ELSE c

\* "End exhausted"
ExhaustedEnded(c, t) ==
    IF c._rage_state = "exhausted" /\ t > c._rage_timer
    THEN [c EXCEPT !._rage_state = "none"]
    ELSE c

\* handle_rage_state: the creature after the call, and the multiplier returned.
HandleRageState(c, t) ==
    IF "Rage State" \notin Range(c.mutations)
    THEN [c EXCEPT !._rage_state = "none"]
    ELSE ExhaustedEnded(RageEnded(RageEntered(c, t), t), t)

RageMultiplier(c) ==
    IF c._rage_state = "rage" THEN RAGE_MULT
    ELSE IF c._rage_state = "exhausted" THEN EXHAUSTED_MULT
    ELSE NO_RAGE_MULT

\* handle_fragmented_dna as far as Rage State goes: f is what the rolls chose once
\* the timer has run out, "gain" or "lose" of Rage State or some other mutation.
FragmentedRage(c, t, f) ==
    IF "Fragmented DNA" \notin Range(c.mutations)
    THEN c
    ELSE IF c._fragmented_timer < 0
    THEN [c EXCEPT !._fragmented_timer = t]
    ELSE IF t - c._fragmented_timer > FRAGMENT_MS
    THEN [c EXCEPT !._fragmented_timer = t,
                   !.mutations = IF f = "gain" /\ "Rage State" \notin Range(@)
                                 THEN Append(@, "Rage State")
                                 ELSE IF f = "lose" THEN Removed(@, "Rage State")
                                 ELSE @]
    ELSE c

RageGenes ==
    {<<>>, <<"Rage State">>, <<"Fragmented DNA">>, <<"Rage State", "Fragmented DNA">>}
RageDtSample == {3000, 8000}
RageHealthSample == {20, 50}

\* A creature of max_health 100 as Creature.__init__ leaves its rage attributes,
\* with no _fragmented_timer yet (-1).
\* entered_at and exhausted_at note the ticks of the last entries into 'rage'
\* and 'exhausted': they are bookkeeping.
InitRage ==
    \E mutations \in RageGenes, health \in RageHealthSample :
        probe = [op |-> "rage", now |-> 0, mult |-> NO_RAGE_MULT,
                 entered_at |-> -1, exhausted_at |-> -1,
                 c |-> [mutations |-> mutations, health |-> health, max_health |-> 100,
                        _rage_state |-> "none", _rage_timer |-> 0, _rage_cooldown |-> 0,
                        _fragmented_timer |-> -1]]

\* The creature at the start of its update dt ms later, its health at health.
RageAt(dt, health, f) ==
    HandleRageState(FragmentedRage([probe.c EXCEPT !.health = health],
                                   probe.now + dt, f),
                    probe.now + dt)

\* A frame: Creature.update up to the call of handle_rage_state.
RageFrame ==
    /\ probe.op = "rage"
    /\ \E dt \in RageDtSample, health \in RageHealthSample, f \in {"none", "gain", "lose"} :
          /\ probe.now + dt <= MaxRageTime
          /\ probe' = [op |-> "rage", now |-> probe.now + dt,
                       mult |-> RageMultiplier(RageAt(dt, health, f)),
                       entered_at |->
                           IF /\ RageAt(dt, health, f)._rage_state = "rage"
                              /\ probe.c._rage_state # "rage"
                           THEN probe.now + dt ELSE probe.entered_at,
                       exhausted_at |->
                           IF /\ RageAt(dt, health, f)._rage_state = "exhausted"
                              /\ probe.c._rage_state # "exhausted"
                           THEN probe.now + dt ELSE probe.exhausted_at,
                       c |-> RageAt(dt, health, f)]
    /\ UNCHANGED <<foodVars, treeVars, simVars>>

NextRage == RageFrame

\* ---- Burrower (mutations.handle_burrower and the attacks that test it)

MaxBurrowTime == 30000   \* the frames studied end by this tick count, in ms

BURROW_MS == 6000
BURROW_COOLDOWN_MS == 20000

\* handle_burrower: both timers are cleared for a creature without the mutation;
\* under 30% health and past the cooldown a burrow starts.
HandleBurrower(c, t) ==
    IF \A k \in DOMAIN c.mutations : c.mutations[k] # "Burrower"
    THEN [c EXCEPT !._burrowed_until = 0, !._burrow_cooldown = 0]
    ELSE IF 10 * c.health < 3 * c.max_health /\ t > c._burrow_cooldown
    THEN [c EXCEPT !._burrowed_until = t + BURROW_MS,
                   !._burrow_cooldown = t + BURROW_COOLDOWN_MS]
    ELSE c

\* handle_burrower's return value
IsBurrowed(c, t) == c._burrowed_until > t

\* The test contested combat and random_attack make of their target.
CannotBeAttacked(c, t) == c._burrowed_until > t

\* The strikes: max(0, attack - defense) off the target's health.
Struck(target, by) == [target EXCEPT !.health = @ - Damage(by.attack, target.defense)]

\* Creature.update of the studied creature: handle_burrower, the death checks,
\* then either the burrowed branch, which leaves the position where it is, or
\* the move and, on the aggression roll, a random_attack on the other creature.
BurrowUpdate(p, dt, step, strikes) ==
    LET t == p.now + dt
        b == HandleBurrower(p.b, t)
    IN  IF b.health <= 0
        THEN [p EXCEPT !.now = t, !.b = b, !.active = FALSE, !.event = "died"]
        ELSE IF IsBurrowed(b, t)
        THEN [p EXCEPT !.now = t, !.b = [b EXCEPT !.x = ClampToMap(@)],
                       !.event = "burrowed",
                       !.started_at = IF b._burrow_cooldown # p.b._burrow_cooldown
                                      THEN t ELSE @]
        ELSE [p EXCEPT !.now = t, !.b = [b EXCEPT !.x = ClampToMap(@ + step)],
                       !.a = IF strikes THEN Struck(@, b) ELSE @,
                       !.event = "moved"]

\* The other creature's contested combat and random_attack with the studied
\* creature as target: both skip a burrowed creature.
GuardedAttack(p, kind) ==
    IF CannotBeAttacked(p.b, p.now) THEN [p EXCEPT !.event = "refused"]
    ELSE [p EXCEPT !.b = Struck(@, p.a), !.event = kind]

\* The other creature's drink_from_pond: on the 20% roll it strikes a creature
\* picked among those in the pond.
WateringHoleAttack(p) ==
    IF PondAt(p.a) # 0 /\ Abs(p.b.x - Ponds[PondAt(p.a)].x) < Ponds[PondAt(p.a)].radius
    THEN [p EXCEPT !.b = Struck(@, p.a), !.event = "watering"]
    ELSE [p EXCEPT !.event = "drank"]

BurrowGenes == {<<>>, <<"Burrower">>}
BurrowXSample == {500 * Scale, 600 * Scale}
BurrowHealthSample == {25, 60}
BurrowDtSample == {3000, 9000}
BurrowStepSample == {2 * Scale}

\* Two creatures of max_health 100, the studied one as Creature.__init__ leaves
\* its burrow attributes; the other stands in the first pond.
\* started_at notes the tick of the last burrow start and event what the last
\* step did: they are bookkeeping.
InitBurrow ==
    \E mutations \in BurrowGenes, x \in BurrowXSample, health \in BurrowHealthSample :
        probe = [op |-> "burrow", now |-> 0, active |-> TRUE, event |-> "none",
                 started_at |-> -1,
                 b |-> [x |-> x, health |-> health, max_health |-> 100,
                        attack |-> 12, defense |-> 5, mutations |-> mutations,
                        _burrowed_until |-> 0, _burrow_cooldown |-> 0],
                 a |-> [x |-> 505 * Scale, health |-> 100, max_health |-> 100,
                        attack |-> 10, defense |-> 5]]

\* A frame begins with the studied creature's update.
BurrowFrame ==
    /\ probe.op = "burrow" /\ probe.active
    /\ \E dt \in BurrowDtSample, step \in BurrowStepSample, strikes \in BOOLEAN :
          /\ probe.now + dt <= MaxBurrowTime
          /\ probe' = BurrowUpdate(probe, dt, step, strikes)
    /\ UNCHANGED <<foodVars, treeVars, simVars>>

\* The other creature's update in the same frame meets the studied creature in
\* contested combat or picks it in random_attack.
BurrowAttacked ==
    /\ probe.op = "burrow" /\ probe.active /\ probe.now > 0
    /\ probe.event \in {"burrowed", "moved"}
    /\ \E kind \in {"contested", "random"} : probe' = GuardedAttack(probe, kind)
    /\ UNCHANGED <<foodVars, treeVars, simVars>>

\* The other creature's update in the same frame drinks.
BurrowWatered ==
    /\ probe.op = "burrow" /\ probe.active /\ probe.now > 0
    /\ probe.event \in {"burrowed", "moved"}
    /\ probe' = WateringHoleAttack(probe)
    /\ UNCHANGED <<foodVars, treeVars, simVars>>

NextBurrow == BurrowFrame \/ BurrowAttacked \/ BurrowWatered

\* ---- the foraging state of a pack member (handle_pack_mentality)

MaxForageTurns == 4    \* turns taken by the creatures studied

FORAGE_BELOW == 70
RETURN_FROM == 90
RETURN_SLACK == 10

\* A carrier with the needs and the attributes the foraging section reads:
\* _pack_state is "unset" until handle_pack_mentality sets the attribute, and
\* has_pack says whether the creature has the attribute pack, which
\* Creature.__init__ does not set. centre_dist notes the distance from the pack
\* centre at which 'returning' was last left: it is bookkeeping.
Forager(x, mutations) ==
    Carrier(x, mutations, 100, 10, 1) @@
    [hunger |-> 100 * Scale, thirst |-> 100 * Scale, _pack_state |-> "unset",
     has_pack |-> FALSE, centre_dist |-> -1]

\* "Find or create pack": the attribute pack is copied from a creature of the
\* same pack_id that has it.
FindPack(pop, c) ==
    IF /\ ~pop[c].has_pack
       /\ pop[c].pack_id # None
       /\ \E i \in DOMAIN pop : pop[i].pack_id = pop[c].pack_id /\ pop[i].has_pack
    THEN [pop EXCEPT ![c].has_pack = TRUE]
    ELSE pop

\* The three tests of "Pack foraging and return", in the order of the code.
LeftPack(c) ==
    IF /\ c._pack_state \in {"unset", "in_pack"}
       /\ (c.hunger < FORAGE_BELOW * Scale \/ c.thirst < FORAGE_BELOW * Scale)
    THEN [c EXCEPT !._pack_state = "foraging"]
    ELSE IF c._pack_state = "unset" THEN [c EXCEPT !._pack_state = "in_pack"]
    ELSE c

SatisfiedByEitherNeed(c) ==
    IF /\ c._pack_state = "foraging"
       /\ (c.hunger >= RETURN_FROM * Scale \/ c.thirst >= RETURN_FROM * Scale)
    THEN [c EXCEPT !._pack_state = "returning"]
    ELSE c

Satisfied(c) ==
    IF /\ c._pack_state = "foraging"
       /\ c.hunger >= RETURN_FROM * Scale /\ c.thirst >= RETURN_FROM * Scale
    THEN [c EXCEPT !._pack_state = "returning"]
    ELSE c

CentreOf(pop, p) == SumX(pop, Members(pop, p)) \div Cardinality(Members(pop, p))

Returned(pop, c) ==
    IF pop[c]._pack_state = "returning" /\ pop[c].has_pack
    THEN IF Abs(CentreOf(pop, pop[c].pack_id) - pop[c].x) > RETURN_SLACK * Scale
         THEN [pop EXCEPT ![c].x = @ + pop[c].speed *
                              Toward(CentreOf(pop, pop[c].pack_id) - pop[c].x)]
         ELSE [pop EXCEPT ![c]._pack_state = "in_pack",
                          ![c].centre_dist = Abs(CentreOf(pop, pop[c].pack_id) - pop[c].x)]
    ELSE pop

\* "Pack foraging and return"
PackForaging(pop, c) ==
    IF pop[c].pack_id = None THEN pop
    ELSE Returned([pop EXCEPT ![c] = Satisfied(LeftPack(@))], c)

\* handle_pack_mentality(creature, all_creatures, get_biome) for a creature of
\* any hunger and thirst.
HandlePackMentalityOfAny(pop, c) ==
    IF "Pack mentality" \notin Range(pop[c].mutations)
    THEN pop
    ELSE HandlePackMentality(PackForaging(FindPack(pop, c), c), c)

ForageGenes == {<<>>, <<"Pack mentality">>}
ForageNeedSample == {60 * Scale, 95 * Scale}

\* Two founders 5 px apart.
InitForage ==
    \E m1 \in ForageGenes, m2 \in ForageGenes :
        probe = [op |-> "forage", turns |-> 0, last |-> None,
                 pop |-> <<Forager(500 * Scale, m1), Forager(505 * Scale, m2)>>]

\* Creature.update of creature c: the frame leaves it with the hunger and the
\* thirst drawn, it moves to the right, and update calls handle_pack_mentality.
ForageTurn ==
    /\ probe.op = "forage"
    /\ probe.turns < MaxForageTurns
    /\ \E c \in DOMAIN probe.pop, hunger \in ForageNeedSample,
          thirst \in ForageNeedSample :
           probe' = [probe EXCEPT
               !.turns = @ + 1, !.last = c,
               !.pop = HandlePackMentalityOfAny(
                           Stepped([@ EXCEPT ![c].hunger = hunger, ![c].thirst = thirst],
                                   c, probe.pop[c].speed), c)]
    /\ UNCHANGED <<foodVars, treeVars, simVars>>

\* The main loop calls handle_pack_mentality once more for the creature.
ForageAgain ==
    /\ probe.op = "forage"
    /\ probe.last # None
    /\ probe' = [probe EXCEPT !.last = None,
                              !.pop = HandlePackMentalityOfAny(@, probe.last)]
    /\ UNCHANGED <<foodVars, treeVars, simVars>>

NextForage == ForageTurn \/ ForageAgain

\* ---- the packs and their member lists (mutations.Pack, mutations.packs)

NumPackCreatures == 11   \* creatures the simulation starts with
MaxPackTurns == 3        \* calls of handle_pack_mentality
MaxPackDeaths == 1       \* creatures that die

\* Pack.add_member on the state st = [pop, active, packs, pack_counter], where
\* packs[p] is the list Pack.members of the pack with id p.
AddMember(st, p, i) ==
    IF (\A k \in DOMAIN st.packs[p] : st.packs[p][k] # i) /\ Len(st.packs[p]) < PACK_LIMIT
    THEN [st EXCEPT !.packs[p] = Append(@, i), !.pop[i].pack_id = p]
    ELSE st

\* "Try to join a nearby pack": the first creature of the list whose pack takes
\* one more (None: nobody).
PackToJoin(st, c) ==
    LET takers == SelectSeq(st.active, LAMBDA o :
                      /\ o # c
                      /\ st.pop[o].pack_id # None
                      /\ "Pack mentality" \in Range(st.pop[o].mutations)
                      /\ st.pop[o].pack_id \in DOMAIN st.packs
                      /\ Len(st.packs[st.pop[o].pack_id]) < PACK_LIMIT)
    IN IF takers = <<>> THEN None ELSE st.pop[Head(takers)].pack_id

\* "Otherwise, form a new pack": Pack(home_biome) takes the id pack_counter.
NewPack(st, c) ==
    AddMember([st EXCEPT !.packs = Append(@, <<>>), !.pack_counter = @ + 1],
              st.pack_counter, c)

\* "Try to convert nearby non-pack creatures", from the k-th creature of the
\* list on.
RECURSIVE Converted(_, _, _)
Converted(st, c, k) ==
    IF k > Len(st.active) THEN st
    ELSE Converted(IF /\ st.active[k] # c
                      /\ st.pop[st.active[k]].pack_id = None
                      /\ Len(st.packs[st.pop[c].pack_id]) < PACK_LIMIT
                      /\ Abs(st.pop[st.active[k]].x - st.pop[c].x) < CONVERT_RADIUS * Scale
                   THEN AddMember([st EXCEPT !.pop[st.active[k]] =
                                                  Mutated(@, "Pack mentality")],
                                  st.pop[c].pack_id, st.active[k])
                   ELSE st,
                   c, k + 1)

\* "Move toward pack center if not close": the centre is that of Pack.members.
SumMembersX(pop, members) ==
    SumX(pop, Range(members)) \div Cardinality(Range(members))

MovedToCentre(st, c) ==
    IF Abs(st.pop[c].x - SumMembersX(st.pop, st.packs[st.pop[c].pack_id]))
          > CENTRE_SLACK * Scale
    THEN [st EXCEPT !.pop[c].x = @ + st.pop[c].speed *
              Toward(SumMembersX(st.pop, st.packs[st.pop[c].pack_id]) - st.pop[c].x)]
    ELSE st

\* "Defend home biome", from the k-th creature of the list on.
RECURSIVE Defended(_, _, _)
Defended(st, c, k) ==
    IF k > Len(st.active) THEN st
    ELSE Defended(IF /\ st.active[k] # c
                     /\ st.pop[st.active[k]].pack_id # st.pop[c].pack_id
                     /\ Abs(st.pop[st.active[k]].x - st.pop[c].x) < CONVERT_RADIUS * Scale
                  THEN [st EXCEPT
                           !.pop[c].x = @ + st.pop[c].speed *
                                            Toward(st.pop[st.active[k]].x - st.pop[c].x),
                           !.pop[st.active[k]].health =
                               IF @ > 0
                               THEN @ - Max(0, st.pop[c].attack - st.pop[st.active[k]].defense)
                               ELSE @]
                  ELSE st,
                  c, k + 1)

\* "Pack member collision avoidance", from the k-th member of the pack on.
RECURSIVE Avoided(_, _, _)
Avoided(st, c, k) ==
    IF k > Len(st.packs[st.pop[c].pack_id]) THEN st
    ELSE Avoided(IF /\ st.packs[st.pop[c].pack_id][k] # c
                    /\ Abs(st.pop[st.packs[st.pop[c].pack_id][k]].x - st.pop[c].x)
                          < 2 * CREATURE_RADIUS * Scale
                    /\ Abs(st.pop[st.packs[st.pop[c].pack_id][k]].x - st.pop[c].x) > 0
                 THEN [st EXCEPT !.pop[c].x = @ +
                          Sign(st.pop[c].x - st.pop[st.packs[st.pop[c].pack_id][k]].x) *
                          ((2 * CREATURE_RADIUS * Scale
                            - Abs(st.pop[st.packs[st.pop[c].pack_id][k]].x - st.pop[c].x))
                           \div 2)]
                 ELSE st,
                 c, k + 1)

\* handle_pack_mentality from the conversions on, for a creature with a pack.
PackLife(st, c) ==
    Avoided(Defended(MovedToCentre(Converted(st, c, 1), c), c, 1), c, 1)

\* handle_pack_mentality(creature, all_creatures, get_biome) with the packs it
\* keeps, for fed creatures of one biome.
HandlePackMembers(st, c) ==
    IF "Pack mentality" \notin Range(st.pop[c].mutations)
    THEN st
    ELSE IF st.pop[c].pack_id = None /\ PackToJoin(st, c) # None
    THEN AddMember(st, PackToJoin(st, c), c)
    ELSE IF st.pop[c].pack_id = None
    THEN PackLife(NewPack(st, c), c)
    ELSE PackLife(st, c)

PackGenes == {<<>>, <<"Pack mentality">>}
PackGapSample == {1 * Scale, 30 * Scale}

\* The founders stand gap apart in a row; the first two may carry Pack mentality.
InitPacks ==
    \E m1 \in PackGenes, m2 \in PackGenes, gap \in PackGapSample :
        probe = [op |-> "packs", turns |-> 0, deaths |-> 0,
                 pop |-> [i \in 1..NumPackCreatures |->
                             Carrier(500 * Scale + i * gap,
                                     IF i = 1 THEN m1 ELSE IF i = 2 THEN m2 ELSE <<>>,
                                     100, 10, 1)],
                 active |-> [i \in 1..NumPackCreatures |-> i],
                 packs |-> <<>>, pack_counter |-> 1]

\* The main loop calls handle_pack_mentality(c, creatures, get_biome).
PackCall ==
    /\ probe.op = "packs"
    /\ probe.turns < MaxPackTurns
    /\ \E k \in DOMAIN probe.active :
          probe' = [HandlePackMembers(probe, probe.active[k]) EXCEPT !.turns = @ + 1]
    /\ UNCHANGED <<foodVars, treeVars, simVars>>

\* c.update returned False: creatures.remove(c).
PackDeath ==
    /\ probe.op = "packs"
    /\ probe.deaths < MaxPackDeaths
    /\ \E k \in DOMAIN probe.active :
          probe' = [probe EXCEPT !.deaths = @ + 1,
                                 !.active = Remove(@, probe.active[k])]
    /\ UNCHANGED <<foodVars, treeVars, simVars>>

NextPacks == PackCall \/ PackDeath

\* ---- the nearest food (FoodManager.get_nearest_food, Squibble.find_nearest_food)

NumNearFoods == 3      \* sprites on the map of the search

\* The squared distance both searches compare.
FoodD2(food, x, y) == (food.x - x) * (food.x - x) + (food.y - y) * (food.y - y)

\* FoodManager.get_available_food, as indices of the list foods
GetAvailableFood(fs) == {i \in DOMAIN fs : ~fs[i].eaten /\ fs[i].remaining_slots > 0}

\* FoodManager.get_nearest_food: the foods of the cells in the radius, visited
\* in the order of the cells, and the first of the nearest kept (0 for None).
GetNearestFood(fs, x, y, vision_radius) ==
    LET seen == {i \in DOMAIN fs :
                    /\ FoodCell(fs[i]) \in CellsInRadius(x, y, vision_radius)
                    /\ ~(fs[i].eaten \/ fs[i].remaining_slots <= 0)
                    /\ FoodD2(fs[i], x, y) <= vision_radius * vision_radius}
    IN IF seen = {} THEN 0
       ELSE CHOOSE i \in seen : \A j \in seen \ {i} :
               \/ FoodD2(fs[i], x, y) < FoodD2(fs[j], x, y)
               \/ FoodD2(fs[i], x, y) = FoodD2(fs[j], x, y) /\ VisitedBefore(fs, i, j)

\* Squibble.find_nearest_food: the available foods in the order of the list, and
\* the first of the nearest kept (0 for None). The distances are compared by
\* their squares.
FindNearestFood(fs, x, y, vision) ==
    LET seen == {i \in GetAvailableFood(fs) : FoodD2(fs[i], x, y) <= vision * vision}
    IN IF seen = {} THEN 0
       ELSE CHOOSE i \in seen : \A j \in seen \ {i} :
               \/ FoodD2(fs[i], x, y) < FoodD2(fs[j], x, y)
               \/ FoodD2(fs[i], x, y) = FoodD2(fs[j], x, y) /\ i < j

NearXSample == {60, 70, 130, 200}
NearYSample == {50, 70}
NearSlotSample == {0, 2}
SquibbleXSample == {0, 65, 100, 255}
SquibbleYSample == {60}
VisionSample == {5, 40, 100}

\* A food that spawn_food placed at (x, y) and that was eaten down to slots.
NearFood(x, y, slots) ==
    [NewFood(x, y, "plainsshrub") EXCEPT !.remaining_slots = slots, !.eaten = (slots = 0)]

\* A FoodManager after spawn_food and some meals, and no search made yet.
InitNearest ==
    /\ \E xs \in [1..NumNearFoods -> NearXSample], ys \in [1..NumNearFoods -> NearYSample],
          slots \in [1..NumNearFoods -> NearSlotSample] :
          foods = [i \in 1..NumNearFoods |-> NearFood(xs[i], ys[i], slots[i])]
    /\ current_time = 0
    /\ eat_result = NoneResult
    /\ food_op = [name |-> "init", food |-> 0]
    /\ last_consume_at = <<>>
    /\ last_regen_at = <<>>
    /\ streak = <<>>
    /\ probe = [op |-> "none"]

\* A squibble at (x, y) looks for food both ways.
AskNearest ==
    /\ \E x \in SquibbleXSample, y \in SquibbleYSample, vision \in VisionSample :
          probe' = [op |-> "nearest", x |-> x, y |-> y, vision |-> vision,
                    nearest_food |-> GetNearestFood(foods, x, y, vision),
                    brute |-> FindNearestFood(foods, x, y, vision)]
    /\ UNCHANGED <<foodVars, treeVars, simVars>>

NextNearest == AskNearest

\* ---- a carrier of Null Core in the main loop

\* The mutations a carrier of Null Core was born with besides it.
NullCoreCarriers ==
    {{"Null Core"}, {"Null Core", "Child Eater"}, {"Null Core", "Paranoia"},
     {"Null Core", "Dominant"}}

\* Some time into a run: creature 1, a grown female carrying Null Core, and
\* creature 2, a male just born or grown, gap px from her.
InitNull ==
    \E gap \in GapSample, start \in StartDelaySample, mutations \in NullCoreCarriers,
       age \in {0, 250} :
        /\ creatures = <<1, 2>>
        /\ cr = <<Partner(1, "F", FounderX(1, gap), 250, 100 * Scale, 30000, mutations),
                  Partner(2, "M", FounderX(2, gap), age, 100 * Scale, 30000, {})>>
        /\ issued = <<1, 2>>
        /\ id_counter = 3
        /\ now = start
        /\ frame = [count |-> 0, dt |-> 0, todo |-> <<>>, running |-> FALSE]
        /\ grid = <<>>
        /\ global_total_kills = 0
        /\ hits = <<>>
        /\ last_update = [id |-> None, dead |-> FALSE, returned |-> TRUE]
        /\ born_of = <<>>
        /\ eaten = NothingEaten
        /\ nodes = RegisterFounders(<<>>, <<1, 2>>)
        /\ current_generation = 0
        /\ registered_in_order = TRUE

(***************************************************************************)
(* Specifications                                                          *)
(***************************************************************************)

\* The simulation: game initialization, then the main loop.
Init == InitSim /\ InitSimTree /\ NoFood /\ NoProbe
Spec == Init /\ [][Next]_vars

\* A FoodManager on its own, as main.py builds it.
FoodOnly == InitFood /\ NoTree /\ NoSim /\ NoProbe
SpecFood == FoodOnly /\ [][NextFood]_vars

\* A FamilyTree on its own, driven through its module-level interface.
TreeOnly == InitTree /\ NoFood /\ NoSim /\ NoProbe
SpecTree == TreeOnly /\ [][NextTree]_vars

\* The target selection on its own.
PickOnly == InitPick /\ NoFood /\ NoTree /\ NoSim
SpecPick == PickOnly /\ [][NextPick]_vars

\* Creature.reproduce on its own, on a pair of creatures.
MateOnly == InitMate /\ NoFood /\ NoTree
SpecMate == MateOnly /\ [][NextMate]_vars

\* get_neighbors on its own.
GridOnly == InitGrid /\ NoFood /\ NoTree /\ NoSim
SpecGrid == GridOnly /\ [][NextGrid]_vars

\* The mutation roll of make_offspring on its own.
IncestOnly == InitIncest /\ NoFood /\ NoTree /\ NoSim
SpecIncest == IncestOnly /\ [][NextIncest]_vars

\* The Rage State machine.
RageOnly == InitRage /\ NoFood /\ NoTree /\ NoSim
SpecRage == RageOnly /\ [][NextRage]_vars

\* Burrower alone.
BurrowOnly == InitBurrow /\ NoFood /\ NoTree /\ NoSim
SpecBurrow == BurrowOnly /\ [][NextBurrow]_vars

\* The foraging state of pack members.
ForageOnly == InitForage /\ NoFood /\ NoTree /\ NoSim
SpecForage == ForageOnly /\ [][NextForage]_vars

\* The packs and their member lists.
PacksOnly == InitPacks /\ NoFood /\ NoTree /\ NoSim
SpecPacks == PacksOnly /\ [][NextPacks]_vars

\* The search for the nearest food.
NearestOnly == InitNearest /\ NoTree /\ NoSim
SpecNearest == NearestOnly /\ [][NextNearest]_vars

\* Mutation gains, packs and positions.
GenesOnly == InitGenes /\ NoFood /\ NoTree /\ NoSim
SpecGenes == GenesOnly /\ [][NextGenes]_vars

\* The lineage queries over the trees the simulation can register.
KinOnly == InitTree /\ NoFood /\ NoSim /\ NoProbe
SpecKin == KinOnly /\ [][NextKin]_vars

\* The main loop from a state in which a creature carries Null Core.
NullOnly == InitNull /\ NoFood /\ NoProbe
SpecNull == NullOnly /\ [][Next]_vars

(***************************************************************************)
(* Properties of Food.py, checked under SpecFood                           *)
(***************************************************************************)

\* C7 -- food slot round trip.  A food consumed max_slots times in a row, starting
\* full, has no slot left; and an update that runs on an exhausted food once
\* regen_delay has passed since its last consumption leaves it with exactly one
\* slot, never more.
C7_SlotRoundTrip ==
    /\ [](\A f \in FoodIds : streak[f] = foods[f].max_slots => foods[f].remaining_slots = 0)
    /\ [][\A f \in FoodIds :
            (/\ food_op'.name = "update"
             /\ foods[f].remaining_slots = 0
             /\ last_consume_at[f] >= 0
             /\ current_time' - last_consume_at[f] >= foods[f].regen_delay)
            => foods'[f].remaining_slots = 1]_vars

\* C7 witness: an update has just given an emptied food its first slot back.
C7_Witness ==
    \E f \in FoodIds :
        /\ food_op.name = "update"
        /\ last_regen_at[f] = current_time
        /\ last_consume_at[f] >= 0
        /\ current_time - last_consume_at[f] >= foods[f].regen_delay
        /\ foods[f].remaining_slots = 1
        /\ foods[f].max_slots > 1

\* C8 -- regeneration pacing.  No step adds more than one slot to a food; a slot is
\* added only by update, only to a food below max_slots, never sooner than
\* regen_delay after the food's latest consumption and never sooner than
\* regen_delay after its previous regenerated slot.
C8_RegenPacing ==
    [][\A f \in FoodIds :
          /\ foods'[f].remaining_slots <= foods[f].remaining_slots + 1
          /\ foods'[f].remaining_slots > foods[f].remaining_slots =>
                /\ food_op'.name = "update"
                /\ foods[f].remaining_slots < foods[f].max_slots
                /\ last_consume_at[f] >= 0 =>
                      current_time' - last_consume_at[f] >= foods[f].regen_delay
                /\ last_regen_at[f] >= 0 =>
                      current_time' - last_regen_at[f] >= foods[f].regen_delay]_vars

\* C8 witness: a food has regenerated a second slot, regen_delay after its first.
C8_Witness ==
    \E f \in FoodIds :
        /\ food_op.name = "update"
        /\ last_regen_at[f] = current_time
        /\ last_consume_at[f] >= 0
        /\ current_time - last_consume_at[f] >= 2 * foods[f].regen_delay
        /\ foods[f].remaining_slots >= 2

\* C9 -- consuming.  An eat call on a food with no slot left returns None and
\* changes nothing of the food; an eat call on a food with a slot left takes
\* exactly one slot and returns the food's (hunger_gain, thirst_gain).
C9_Consume ==
    [][\A f \in FoodIds :
          (food_op'.name \in {"eat", "eat_at"} /\ food_op'.food = f) =>
             IF foods[f].remaining_slots = 0
             THEN eat_result' = NoneResult /\ foods'[f] = foods[f]
             ELSE /\ foods'[f].remaining_slots = foods[f].remaining_slots - 1
                  /\ eat_result' = SomeResult(foods[f].hunger_gain, foods[f].thirst_gain)]_vars

\* C9 witness: eat has just been refused on an exhausted food that was consumed before.
C9_Witness ==
    \E f \in FoodIds :
        /\ food_op = [name |-> "eat", food |-> f]
        /\ eat_result = NoneResult
        /\ foods[f].remaining_slots = 0
        /\ streak[f] = foods[f].max_slots

(***************************************************************************)
(* Properties of familytree.py, checked under SpecTree                     *)
(***************************************************************************)

\* The generation a parent id counts for: -1 when it is None or not registered.
GenerationOf(pid) ==
    IF pid = None \/ pid \notin DOMAIN nodes THEN -1 ELSE nodes[pid].generation

\* C5 -- generation rule.  As long as every id was registered once and before any
\* node naming it as a parent, every node without parents has generation 0 and
\* every other node has generation 1 + max(generation(mother), generation(father)),
\* a None or unregistered parent counting as -1.
C5_GenerationRule ==
    registered_in_order =>
        \A id \in DOMAIN nodes :
            LET p == nodes[id].parent_ids IN
            nodes[id].generation =
                IF p = NoParents THEN 0
                ELSE 1 + Max(GenerationOf(p[1]), GenerationOf(p[2]))

\* C5 witness: a grandchild registered in order, one of whose parents is missing.
C5_Witness ==
    /\ registered_in_order
    /\ \E id \in DOMAIN nodes :
          /\ nodes[id].generation = 2
          /\ nodes[id].parent_ids # NoParents
          /\ GenerationOf(nodes[id].parent_ids[1]) # GenerationOf(nodes[id].parent_ids[2])


(***************************************************************************)
(* Properties of the simulation, checked under Spec                        *)
(***************************************************************************)

\* An UpdateCreature step is about to be taken (no other action is enabled then).
Updating == frame.running /\ frame.todo # <<>>

\* C1: at every tick boundary every creature of the active list has
\* 0 <= hunger <= 100, 0 <= thirst <= 100 and 0 <= health <= max_health.
C1_VitalsInRange ==
    ~frame.running =>
        \A id \in Range(creatures) :
            /\ 0 <= cr[id].hunger /\ cr[id].hunger <= 100 * Scale
            /\ 0 <= cr[id].thirst /\ cr[id].thirst <= 100 * Scale
            /\ 0 <= cr[id].health /\ cr[id].health <= cr[id].max_health

\* C2: a creature of which a death condition held in its update is no longer in
\* the active list once the main loop has handled that update.
C2_DeadAreRemoved ==
    last_update.dead => last_update.id \notin Range(creatures)

\* C3: whenever an id leaves the active list, the same step leaves its lineage
\* node flagged alive = False with the time of the step as death time; no step
\* deletes a lineage node, and a flagged node keeps its flag and its death time.
C3_RemovalMarksDead ==
    [][/\ \A id \in Range(creatures) \ Range(creatures') :
             /\ id \in DOMAIN nodes'
             /\ ~nodes'[id].alive
             /\ nodes'[id].death_time = now
       /\ DOMAIN nodes \subseteq DOMAIN nodes'
       /\ \A id \in DOMAIN nodes :
             ~nodes[id].alive =>
                 ~nodes'[id].alive /\ nodes'[id].death_time = nodes[id].death_time]_vars

\* A creature was removed and marked dead while others live on.
C3_Witness ==
    /\ Len(creatures) < Len(issued)
    /\ creatures # <<>>
    /\ \E id \in DOMAIN nodes : ~nodes[id].alive /\ id \notin Range(creatures)

\* C4: the ids handed out by Creature.__init__ are strictly increasing in the
\* order of construction, so no two constructions share an id, and every object
\* carries the id it was handed.
C4_IdsIncrease ==
    /\ \A i, j \in DOMAIN issued : i < j => issued[i] < issued[j]
    /\ \A i \in DOMAIN issued : issued[i] < id_counter
    /\ \A id \in DOMAIN cr : cr[id].unique_id = id
    /\ Range(creatures) \subseteq Range(issued)

\* A child was constructed after a founder had died and been removed.
C4_Witness ==
    /\ Len(issued) > NumFounders
    /\ \E id \in Range(issued) : id <= NumFounders /\ id \notin Range(creatures)

\* The lineage nodes whose children_ids hold child.
HoldersOf(child) == {n \in DOMAIN nodes : child \in nodes[n].children_ids}

\* C6: a child's id is in the children_ids of the creature that bore it and of
\* the sire, two different nodes, and of no other node; the nodes registered with
\* parents are those of the children born.
C6_ChildOfItsParents ==
    /\ \A child \in DOMAIN born_of :
          /\ HoldersOf(child) = {born_of[child][1], born_of[child][2]}
          /\ born_of[child][1] # born_of[child][2]
    /\ \A id \in DOMAIN nodes :
          IF id \in DOMAIN born_of
          THEN nodes[id].parent_ids = born_of[id]
          ELSE nodes[id].parent_ids = NoParents /\ HoldersOf(id) = {}

\* A child was born to a living mother and a sire removed before the birth, and
\* the sire's node holds it.
C6_Witness ==
    \E child \in DOMAIN born_of :
        /\ born_of[child][1] \in Range(creatures)
        /\ born_of[child][2] \notin Range(creatures)
        /\ child \in nodes[born_of[child][2]].children_ids

\* The damage the code works out for a strike of each kind, from the attacker and
\* the defender as the update call left them.
ExpectedDamage(h) ==
    LET a == cr[h.attacker]
        d == cr[h.defender]
    IN CASE h.kind = "contested" ->
              Max(0, Mul(EffectiveAttack(a), HandleDominant(a, d))
                     - Mul(d.defense, HandleDominant(d, a)))
         [] h.kind = "random" -> Max(0, EffectiveAttack(a) - d.defense)
         [] h.kind = "retaliation" -> Max(0, a.attack - EffectiveDefense(d))
         [] h.kind = "watering" -> Max(0, a.attack - d.defense)

\* The kills of attacker id among the strikes of a call.
KillsBy(hs, id) == Cardinality({k \in DOMAIN hs : hs[k].kill /\ hs[k].attacker = id})

\* C10 as stated: every strike takes max(0, attacker's effective attack -
\* defender's defense) from the defender's health, and a kill is recorded if and
\* only if the defender's health less the damage is at most 0.
C10_AsStated ==
    \A k \in DOMAIN hits :
        LET h == hits[k]
            damage == Max(0, EffectiveAttack(cr[h.attacker]) - cr[h.defender].defense)
        IN /\ h.before - h.after = damage
           /\ h.kill <=> h.before - damage <= 0

\* C10 as the code has it: a strike takes from the defender's health max(0, A - D),
\* where in contested combat A is the attacker's effective attack and D the
\* defender's defense, each times 1.5 for a Dominant creature facing one that is
\* not; in a random attack A is the effective attack and D the defense; in a
\* retaliation A is the retaliator's attack and D the effective defense of the
\* creature it strikes back at; at the watering hole A is the attack and D the
\* defense.  A kill is recorded, on the attacker's kill_count and on the global
\* counter, if and only if the defender's health was above 0 before the strike
\* and is at most 0 after it.
C10_CombatAsCoded ==
    /\ [](\A k \in DOMAIN hits :
             /\ hits[k].before - hits[k].after = ExpectedDamage(hits[k])
             /\ hits[k].kill <=> (hits[k].before > 0 /\ hits[k].after <= 0))
    /\ [][IF Updating
          THEN /\ global_total_kills' =
                     global_total_kills + Cardinality({k \in DOMAIN hits' : hits'[k].kill})
               /\ \A id \in DOMAIN cr :
                     cr'[id].kill_count = cr[id].kill_count + KillsBy(hits', id)
          ELSE global_total_kills' = global_total_kills]_vars

\* One call made a kill and then struck the creature it had killed again.
C10_Witness ==
    \E j, k \in DOMAIN hits :
        /\ j < k
        /\ hits[j].kill
        /\ hits[k].defender = hits[j].defender
        /\ hits[k].after < hits[k].before
        /\ ~hits[k].kill

\* The sum of kill_count over the creatures of ids.
RECURSIVE SumKills(_)
SumKills(ids) ==
    IF ids = {} THEN 0
    ELSE LET id == CHOOSE id \in ids : TRUE
         IN cr[id].kill_count + SumKills(ids \ {id})

\* The creatures other than the one being updated that the step takes from health
\* above 0 to health at most 0.
SlainInStep == {d \in DOMAIN cr \ {Head(frame.todo)} : cr[d].health > 0 /\ cr'[d].health <= 0}

\* C11: every creature that the creature being updated takes from health above 0
\* to health at most 0 adds one to that creature's kill_count and one to
\* global_total_kills (which a lethal retaliation against it raises too), and
\* global_total_kills is the sum of kill_count over all creatures ever created.
C11_LethalHitsCounted ==
    /\ [](global_total_kills = SumKills(DOMAIN cr))
    /\ [][Updating =>
            /\ cr'[Head(frame.todo)].kill_count =
                  cr[Head(frame.todo)].kill_count + Cardinality(SlainInStep)
            /\ global_total_kills' =
                  global_total_kills + Cardinality(SlainInStep)
                  + Cardinality({k \in DOMAIN hits' :
                                    hits'[k].kind = "retaliation" /\ hits'[k].kill})]_vars

(***************************************************************************)
(* Target selection (SpecPick)                                             *)
(***************************************************************************)

\* C12: a creature that needs a resource (hunger < 70 or thirst < 70), whose
\* hunger is below its thirst and that sees a food, targets that food, whether
\* or not a pond is in sight and however near the pond is.
C12_HungrierTargetsFood ==
    (/\ probe.op = "picked"
     /\ probe.hunger < probe.thirst
     /\ probe.food.kind = "food")
        => probe.target = probe.food

\* The claim's case: food 5 away, a pond 3 away, hunger below thirst, and the
\* pond counted as a target because thirst is under 70.
C12_Witness ==
    /\ probe.op = "picked"
    /\ probe.hunger = 40 * Scale /\ probe.thirst = 69 * Scale
    /\ probe.food.kind = "food" /\ probe.pond.kind = "pond"
    /\ Abs(probe.pond.x - probe.x) < Abs(probe.food.x - probe.x)
    /\ probe.target.kind = "food"

(***************************************************************************)
(* Mating (SpecMate, Spec)                                                 *)
(***************************************************************************)

\* age / max_age within [10%, 90%]
FertileAge(c) == c.age * 10 >= c.max_age /\ c.age * 10 <= 9 * c.max_age

NotGestating(c, t) == t >= c.gestation_timer /\ c.pending_offspring = <<>>

\* The pair of the call just made, as the caller found it: who called, who the
\* other is, and which of them is the female.
Caller == probe'.self
Partnered == 3 - probe'.self
MotherOf(a, b) == IF cr[a].sex = "F" THEN a ELSE b
FatherOf(a, b) == IF cr[a].sex = "F" THEN b ELSE a

\* Mutually eligible and in mating range: opposite sex, both fed, each attractive
\* enough to the other, both of fertile age, the female not gestating.
MutuallyEligible(a, b) ==
    /\ {cr[a].sex, cr[b].sex} = {"M", "F"}
    /\ \A c \in {a, b} : cr[c].hunger >= 50 * Scale /\ cr[c].thirst >= 50 * Scale
    /\ Attracted(cr[a], cr[b], AgeFactor(cr[a]))
    /\ FertileAge(cr[a]) /\ FertileAge(cr[b])
    /\ NotGestating(cr[MotherOf(a, b)], now)
    /\ Abs(cr[a].x - cr[b].x) < 2 * CREATURE_RADIUS * Scale

\* One more entry, naming the father, on the mother's queue.
Enqueued(m, f) ==
    /\ Len(cr'[m].pending_offspring) = Len(cr[m].pending_offspring) + 1
    /\ SubSeq(cr'[m].pending_offspring, 1, Len(cr[m].pending_offspring))
           = cr[m].pending_offspring
    /\ cr'[m].pending_offspring[Len(cr'[m].pending_offspring)][1] = f

\* The call failed on the infertility roll and changed nothing.
RollFailed == probe'.infertile /\ cr' = cr

C14_FertileWindow ==
    [][\A m \in DOMAIN cr :
          (\/ cr'[m].pending_offspring # cr[m].pending_offspring
           \/ cr'[m].gestation_timer # cr[m].gestation_timer) =>
              /\ cr'[m].pending_offspring # <<>>
              /\ FertileAge(cr[m])
              /\ FertileAge(cr[cr'[m].pending_offspring[Len(cr'[m].pending_offspring)][1]])]_vars

\* A call that found everything in order but the male's age, and left the female
\* as she was.
C14_Witness ==
    /\ probe.op = "reproduce" /\ probe.calls = 1 /\ ~probe.infertile
    /\ probe.self = 1
    /\ FertileAge(cr[1]) /\ ~FertileAge(cr[2])
    /\ cr[1].gestation_duration <= cr[1].max_age - cr[1].age
    /\ cr[2].hunger >= 50 * Scale
    /\ Abs(cr[1].x - cr[2].x) < 2 * CREATURE_RADIUS * Scale
    /\ cr[1].pending_offspring = <<>> /\ cr[1].gestation_timer = 0

\* C15: a female that is gestating (tick < gestation_timer) or has entries on her
\* pending_offspring queue is not mated again, by her own reproduce call or by a
\* male's: no step adds an entry to her queue or sets her gestation_timer anew.
C15_NoSecondMating ==
    [][\A c \in DOMAIN cr :
          (/\ cr[c].sex = "F"
           /\ now < cr[c].gestation_timer \/ cr[c].pending_offspring # <<>>) =>
              /\ Len(cr'[c].pending_offspring) <= Len(cr[c].pending_offspring)
              /\ cr'[c].gestation_timer = cr[c].gestation_timer]_vars

(***************************************************************************)
(* Pregnancy and death in combat (Spec)                                    *)
(***************************************************************************)

\* C16: a pregnant creature (a female with tick < gestation_timer) deals no attack
\* damage: none of the strikes of its update, in contested combat, in a random
\* attack or at the watering hole, lowers another creature's health.
C16_PregnantNeverFights ==
    [][(Updating /\ IsPregnant(cr[Head(frame.todo)], now)) =>
          \A k \in DOMAIN hits' :
              ~(/\ hits'[k].attacker = Head(frame.todo)
                /\ hits'[k].kind \in {"contested", "random", "watering"}
                /\ hits'[k].after < hits'[k].before)]_vars

\* C17: a creature whose death was detected in a tick (its update returned False)
\* is not processed further in that tick: after the call it kills no other
\* creature and consumes nothing.
C17_DeadAreInert ==
    ~(/\ last_update.id # None
      /\ ~last_update.returned
      /\ eaten.by = last_update.id)

(***************************************************************************)
(* Birth (Spec)                                                            *)
(***************************************************************************)

\* The step is the birth logic of a frame.
Bearing == frame.running /\ frame.todo = <<>>

\* A female of the list whose queue is not empty and whose timer has elapsed.
Due(c) ==
    /\ cr[c].sex = "F"
    /\ cr[c].pending_offspring # <<>>
    /\ now >= cr[c].gestation_timer

\* The offspring a queue promises to the sire f.
RECURSIVE Promised(_, _)
Promised(pending, f) ==
    IF pending = <<>> THEN 0
    ELSE (IF Head(pending)[1] = f THEN Head(pending)[2] ELSE 0) + Promised(Tail(pending), f)

\* C18: the birth logic of a tick makes every female of the list whose queue is
\* not empty and whose timer has elapsed bear, for each sire of her queue, as many
\* children as her entries for him count; the children are new creatures of the
\* list, registered in the tree under (mother, father), and her queue is empty
\* afterwards; every other creature keeps its queue, and nobody else is born.
C18_BirthResolution ==
    [][Bearing =>
          /\ \A c \in Range(creatures) :
                IF Due(c)
                THEN /\ cr'[c].pending_offspring = <<>>
                     /\ \A f \in DOMAIN cr :
                           Cardinality({id \in DOMAIN cr' \ DOMAIN cr :
                                           nodes'[id].parent_ids = <<c, f>>})
                              = Promised(cr[c].pending_offspring, f)
                ELSE cr'[c].pending_offspring = cr[c].pending_offspring
          /\ \A id \in DOMAIN cr' \ DOMAIN cr :
                /\ id \in Range(creatures') /\ id \in DOMAIN nodes'
                /\ nodes'[id].parent_ids[1] \in {c \in Range(creatures) : Due(c)}
          /\ \A c \in Range(creatures) : c \in Range(creatures')]_vars

\* A frame has ended in which a mother with two entries on her queue bore both
\* children.
C18_Witness ==
    /\ ~frame.running /\ frame.count >= 1
    /\ \E m \in Range(creatures) :
          /\ cr[m].pending_offspring = <<>>
          /\ Cardinality({id \in DOMAIN nodes : /\ nodes[id].parent_ids # NoParents
                                                /\ nodes[id].parent_ids[1] = m}) = 2

(***************************************************************************)
(* The spatial grid (SpecGrid)                                             *)
(***************************************************************************)

\* C19: get_neighbors returns exactly the entities within the radius of the point
\* asked about, whatever the radius: what a search over all entities would return.
C19_NeighborsAreExact ==
    probe.op = "answered" =>
        Range(probe.neighbors) =
            {id \in DOMAIN probe.table : Abs(probe.table[id].x - probe.x) <= probe.radius}

(***************************************************************************)
(* Inbreeding amplification (SpecIncest)                                   *)
(***************************************************************************)

\* a = k * b, of fractions
Times(a, k, b) == a[1] * b[2] = k * b[1] * a[2]

\* The interval of the parents in the lineage: the depth of their nearest common
\* ancestor, or MAX_DEPTH + 1.
LineageInterval == FindMostRecentCommonAncestor(probe.tree, probe.mother_id, probe.father_id)

\* C20: the thresholds of the mutation roll are the base probabilities times
\* min(10, 10 / interval), interval being that of the parents in the lineage; and
\* those used for parents at interval 1 are exactly 10 times those used for
\* parents with no common ancestor within the search depth.
C20_InbreedingAmplification ==
    probe.op = "rolled" =>
        /\ Times(probe.scale, 1, IF LineageInterval <= 1 THEN <<10, 1>>
                                 ELSE <<10, LineageInterval>>)
        /\ \A base \in {BASE_MEGA_RARE, BASE_NORMAL} :
              LineageInterval = 1 =>
                  Times(Threshold(base, probe.scale), 10,
                        Threshold(base, IncestScale(FindMostRecentCommonAncestor(
                                            ImportedFamilyTree, 1, 3))))

(***************************************************************************)
(* Null Core (SpecNull)                                                    *)
(***************************************************************************)

\* The objects with c's mutations other than Null Core taken away, and with c's
\* mutations set back to muts.
Stripped(table, c) == [table EXCEPT ![c].mutations = @ \cap {"Null Core"}]
Restored(table, c, muts) == [table EXCEPT ![c].mutations = muts]

\* What the update of c with the rolls r, and the handlers after it, leave of the
\* world when c's other mutations do nothing.
Suppressed(c, r) ==
    Update([cr |-> Stripped(cr, c), kills |-> global_total_kills, hits |-> <<>>,
            contested |-> FALSE], creatures, grid, c, now, frame.dt, r)

\* C21: no mutation a carrier of Null Core has besides it changes anything: its
\* turn in the main loop leaves its health, hunger, position and every other
\* creature as the same turn does for a creature carrying Null Core alone.
C21_NullCoreSuppresses ==
    [][(Updating /\ "Null Core" \in cr[Head(frame.todo)].mutations) =>
          \E r \in Rolls(creatures, Head(frame.todo)) :
              /\ cr' = Restored(Suppressed(Head(frame.todo), r).w.cr, Head(frame.todo),
                                cr[Head(frame.todo)].mutations)
              /\ last_update'.returned = Suppressed(Head(frame.todo), r).returned]_vars

(***************************************************************************)
(* Lineage queries (SpecKin)                                               *)
(***************************************************************************)

\* The registered parents and children of a registered creature.
KinParentsOf(ns, id) ==
    IF ns[id].parent_ids = NoParents THEN {}
    ELSE {pid \in {ns[id].parent_ids[1], ns[id].parent_ids[2]} : pid \in DOMAIN ns}
KinChildrenOf(ns, id) == ns[id].children_ids \cap DOMAIN ns

\* The creatures at most depth parent-generations above id, and below it.
RECURSIVE AncestorsWithin(_, _, _)
AncestorsWithin(ns, id, depth) ==
    IF depth = 0 THEN {}
    ELSE KinParentsOf(ns, id) \cup
         UNION {AncestorsWithin(ns, pid, depth - 1) : pid \in KinParentsOf(ns, id)}

RECURSIVE DescendantsWithin(_, _, _)
DescendantsWithin(ns, id, depth) ==
    IF depth = 0 THEN {}
    ELSE KinChildrenOf(ns, id) \cup
         UNION {DescendantsWithin(ns, cid, depth - 1) : cid \in KinChildrenOf(ns, id)}

\* The list holds each of the creatures of the set once, and no other.
ListsExactly(list, ids) == Range(list) = ids /\ Len(list) = Cardinality(ids)

\* The creatures of a set the query keeps: all, or with living_only the living.
Kept(ids) == {id \in ids : ~probe.living_only \/ nodes[id].alive}

\* C22: get_ancestors(id, max_depth) returns each ancestor of id within
\* max_depth parent-generations exactly once and nothing else, whatever the
\* lineage graph, get_descendants does the same for the descendants, and with
\* living_only the result is exactly the living ones among them.
C22_TraversalIsExact ==
    /\ (probe.op = "get_ancestors" /\ probe.creature_id \in DOMAIN nodes) =>
           ListsExactly(probe.result,
               Kept(AncestorsWithin(nodes, probe.creature_id, probe.max_generations)))
    /\ (probe.op = "get_descendants" /\ probe.creature_id \in DOMAIN nodes) =>
           ListsExactly(probe.result,
               Kept(DescendantsWithin(nodes, probe.creature_id, probe.max_generations)))

\* The creatures registered with the parent pair id has.
SharingParentPair(ns, id) ==
    {other \in DOMAIN ns \ {id} : /\ ns[id].parent_ids # NoParents
                                  /\ ns[other].parent_ids = ns[id].parent_ids}

\* C23: get_siblings(id) returns exactly the other registered creatures with the
\* same (mother, father) pair as id: never a creature sharing only one parent
\* with it, never id itself.
C23_SiblingsShareBothParents ==
    (probe.op = "get_siblings" /\ probe.creature_id \in DOMAIN nodes) =>
        ListsExactly(probe.result, SharingParentPair(nodes, probe.creature_id))

\* Both parents of id are registered and were registered with one and the same
\* parent pair.
ParentsAreFullSiblings(ns, id) ==
    /\ id \in DOMAIN ns
    /\ ns[id].parent_ids # NoParents
    /\ \A pid \in Range(ns[id].parent_ids) : pid \in DOMAIN ns
    /\ ns[ns[id].parent_ids[1]].parent_ids # NoParents
    /\ ns[ns[id].parent_ids[1]].parent_ids = ns[ns[id].parent_ids[2]].parent_ids

\* C24: calculate_inbreeding_coefficient(id) is 0.25 exactly when both parents
\* of id are registered and have the identical, non-empty parent pair, and 0.0
\* in every other case: a founder, an unknown id, an unregistered parent,
\* half-sibling or unrelated parents.
C24_InbreedingCoefficient ==
    probe.op = "calculate_inbreeding_coefficient" =>
        probe.result = IF ParentsAreFullSiblings(nodes, probe.creature_id)
                       THEN FULL_SIBLINGS ELSE 0

\* The coefficient of a child of full siblings was asked for, in a tree that
\* also holds a child of two creatures who are not.
C24_Witness ==
    /\ probe.op = "calculate_inbreeding_coefficient"
    /\ probe.result = FULL_SIBLINGS
    /\ \E other \in DOMAIN nodes :
           /\ nodes[other].parent_ids # NoParents
           /\ ~ParentsAreFullSiblings(nodes, other)

\* What the query held by probe returns when asked of id instead.
AnswerFor(id) ==
    CASE probe.op = "get_ancestors" ->
             GetAncestors(nodes, id, probe.max_generations, probe.living_only)
      [] probe.op = "get_descendants" ->
             GetDescendants(nodes, id, probe.max_generations, probe.living_only)
      [] probe.op = "get_siblings" -> GetSiblings(nodes, id)
      [] probe.op = "calculate_inbreeding_coefficient" ->
             CalculateInbreedingCoefficient(nodes, id)
      [] probe.op = "get_family_stats" -> GetFamilyStats(nodes, id)

\* A registered creature with no parents and no children.
Alone(id) ==
    id \in DOMAIN nodes /\ nodes[id].parent_ids = NoParents /\ nodes[id].children_ids = {}

\* C25: a lineage query for an id that was never registered returns a result
\* that differs from what the same query returns for a registered creature with
\* no relatives.
C25_MissingLookupIsExplicit ==
    (probe.op # "none" /\ probe.creature_id \notin DOMAIN nodes) =>
        \A id \in DOMAIN nodes : Alone(id) => probe.result # AnswerFor(id)

(***************************************************************************)
(* Age (Spec)                                                              *)
(***************************************************************************)

\* C30: the age of a creature never decreases from one step to the next.
C30_AgeNeverDecreases ==
    [][\A id \in DOMAIN cr : cr'[id].age >= cr[id].age]_vars

\* A creature of the active list has grown older than it was made.
C30_Witness ==
    \E id \in Range(creatures) :
        cr[id].age > (IF cr[id].mother_id = None THEN cr[id].maturity_age ELSE 0)

(***************************************************************************)
(* Mutation gains, packs and positions (SpecGenes)                         *)
(***************************************************************************)

\* C26: every creature of the active set is inside the world, 0 <= x <=
\* MAP_WIDTH, once its turn in the tick is over, whatever moved it: targeted
\* movement, wandering, the move to the pack centre or the pack's defence.
C26_InsideWorld ==
    \A i \in DOMAIN probe.pop :
        0 <= probe.pop[i].x /\ probe.pop[i].x <= MAP_WIDTH * Scale

\* C27: after any sequence of make_offspring and apply_mutation_effect calls
\* every creature has max_health in 1..100, infertility in 1..100 and
\* offspring_count in 1..5.
C27_StatBounds ==
    \A i \in DOMAIN probe.pop :
        /\ probe.pop[i].max_health \in 1..100
        /\ probe.pop[i].infertility \in 1..100
        /\ probe.pop[i].offspring_count \in 1..5

\* How often mut occurs in a list.
Occurrences(list, mut) == Cardinality({k \in DOMAIN list : list[k] = mut})

\* C28: for every gain of a mutation with static stat deltas, by the birth roll,
\* an exposure, Fragmented DNA or a conversion, apply_mutation_effect was called
\* for the creature and the mutation exactly once.
C28_AppliedOncePerGain ==
    \A i \in DOMAIN probe.pop :
        \A mut \in {m \in GeneCatalog : HasStaticDeltas(m)} :
            Occurrences(probe.pop[i].applied, mut) = Occurrences(probe.pop[i].gained, mut)

\* C29: the mutation list of a creature holds no mutation twice and only
\* mutations of the catalog.
C29_MutationListIsASet ==
    \A i \in DOMAIN probe.pop :
        /\ \A mut \in GeneCatalog : Occurrences(probe.pop[i].mutations, mut) <= 1
        /\ Range(probe.pop[i].mutations) \subseteq GeneCatalog

(***************************************************************************)
(* Parent ids on the creature (Spec)                                       *)
(***************************************************************************)

\* C31: every creature make_offspring returned carries the id of the female
\* parent as mother_id and the id of the male parent as father_id, and only the
\* founders have no mother_id and no father_id.
C31_ParentIdsOnChild ==
    \A id \in DOMAIN cr :
        IF id \in DOMAIN born_of
        THEN /\ cr[id].mother_id = born_of[id][1]
             /\ cr[id].father_id = born_of[id][2]
        ELSE /\ cr[id].mother_id = None
             /\ cr[id].father_id = None

(***************************************************************************)
(* The spatial grid of a tick (Spec)                                       *)
(***************************************************************************)

\* The grid lists the creatures of the active list, each once, each in the cell
\* of the position it has.
GridOf(g, table, list) ==
    /\ [k \in DOMAIN g |-> g[k][1]] = list
    /\ \A k \in DOMAIN g : g[k][2] = GetGridCell(table[g[k][1]].x)

\* C32: the spatial grid is rebuilt once per tick, before any creature's update
\* of the tick, from exactly the creatures active at that moment, each in the
\* cell of its position then: a creature removed or born in an earlier tick is
\* neither missing from it nor stale in it.
C32_GridRebuiltPerTick ==
    [][/\ frame'.count # frame.count => GridOf(grid', cr, creatures)
       /\ frame'.count = frame.count => grid' = grid
       /\ (cr' # cr \/ creatures' # creatures) => (frame.running /\ grid' = grid)]_vars

\* A tick has just built its grid after a creature was removed in an earlier one.
C32_Witness ==
    /\ frame.running
    /\ frame.count >= 2
    /\ frame.todo = creatures
    /\ GridOf(grid, cr, creatures)
    /\ \E id \in DOMAIN cr : id \notin Range(creatures)

\* C33: the mutation roll is applied once at birth: the mutation list of the
\* newborn make_offspring returns has at most one entry more than the set it
\* inherits from its parents.
C33_OneRollAtBirth ==
    [][Len(probe'.pop) > Len(probe.pop) =>
          Len(probe'.pop[Len(probe'.pop)].mutations) <=
              Cardinality(InheritedMutations(probe.pop[1], probe.pop[2])) + 1]_vars

(***************************************************************************)
(* Rage State (SpecRage)                                                   *)
(***************************************************************************)

\* The steps of the cycle none -> rage -> exhausted -> none.
RageCycle == {<<"none", "rage">>, <<"rage", "exhausted">>, <<"exhausted", "none">>}
RageStep == <<probe.c._rage_state, probe'.c._rage_state>>
HasRage(c) == "Rage State" \in Range(c.mutations)

\* What holds of every frame, whatever the creature's mutations do: 'rage' is
\* entered from 'none' with health under 30% and 15 s after the last entry, and
\* left for 'exhausted' after 10 s; the multipliers are those of the state;
\* without the mutation the state is 'none'.
RageRules ==
    /\ RageStep = <<"none", "rage">> =>
           /\ probe'.c.health * 10 < 3 * probe'.c.max_health
           /\ probe.entered_at >= 0 => probe'.now > probe.entered_at + RAGE_COOLDOWN_MS
    /\ RageStep = <<"rage", "exhausted">> => probe'.now > probe.entered_at + RAGE_MS
    /\ probe'.mult = (CASE probe'.c._rage_state = "rage" -> 2000
                        [] probe'.c._rage_state = "exhausted" -> 500
                        [] OTHER -> 1000)
    /\ ~HasRage(probe'.c) => probe'.c._rage_state = "none"

\* C34, as stated: _rage_state only ever changes along none -> rage ->
\* exhausted -> none, 'rage' is entered only from 'none' with health under 30%
\* of max_health and the 15 s cooldown over, it lasts 10 s and is always
\* followed by 5 s of 'exhausted', never directly by 'none'; the multipliers
\* are 2.0, 0.5 and 1.0; a creature without the mutation is always in 'none'.
C34_AsStated ==
    [][/\ RageStep[1] # RageStep[2] => RageStep \in RageCycle
       /\ RageStep = <<"exhausted", "none">> =>
              probe'.now > probe.exhausted_at + EXHAUSTED_MS
       /\ RageRules]_vars

\* C34, amended: the same for a creature that carries the mutation at its
\* update; one that has lost it goes to 'none' from 'rage' and from 'exhausted'
\* at once.
C34_RageStateMachine ==
    [][/\ (RageStep[1] # RageStep[2] /\ HasRage(probe'.c)) =>
              /\ RageStep \in RageCycle
              /\ RageStep = <<"exhausted", "none">> =>
                     probe'.now > probe.exhausted_at + EXHAUSTED_MS
       /\ RageRules]_vars

\* A creature has been through rage and exhaustion and is back in 'none', the
\* mutation still on it.
C34_Witness ==
    /\ probe.op = "rage"
    /\ HasRage(probe.c)
    /\ probe.c._rage_state = "none"
    /\ probe.exhausted_at > probe.entered_at
    /\ probe.entered_at > 0

\* C35: while a creature is burrowed (now < _burrowed_until) no other
\* creature's attack reduces its health, its position does not change and it
\* deals no damage; a burrow lasts 6 s, and none starts within 20 s of the
\* start of the previous one.
Burrowing(p) == p.now < p.b._burrowed_until
BurrowStarts == probe'.started_at # probe.started_at
C35_BurrowedIsInert ==
    [][/\ (Burrowing(probe) /\ probe'.now = probe.now) =>
              probe'.b.health >= probe.b.health
       /\ Burrowing(probe') =>
              /\ probe'.b.x = probe.b.x
              /\ probe'.a.health = probe.a.health
       /\ BurrowStarts =>
              /\ probe'.b._burrowed_until = probe'.now + BURROW_MS
              /\ probe.started_at >= 0 =>
                     probe'.now >= probe.started_at + BURROW_COOLDOWN_MS]_vars

\* C36: the _pack_state of a pack member moves only in_pack -> foraging ->
\* returning -> in_pack; it leaves in_pack only with hunger < 70 or thirst < 70,
\* foraging only with hunger >= 90 and thirst >= 90, and returning only within
\* 10 units of the pack centre. A creature on which the attribute is not set
\* yet counts as in_pack, the value it is set to.
PackState(c) == IF c._pack_state = "unset" THEN "in_pack" ELSE c._pack_state
PackStep(i) == <<PackState(probe.pop[i]), PackState(probe'.pop[i])>>
C37_FoodStateConsistent ==
    \A f \in DOMAIN foods :
        /\ 0 <= foods[f].remaining_slots
        /\ foods[f].remaining_slots <= foods[f].max_slots
        /\ foods[f].eaten <=> (foods[f].remaining_slots = 0)
C37_Witness ==
    \E f \in DOMAIN foods :
        /\ food_op.name = "update"
        /\ last_regen_at[f] = current_time
        /\ last_consume_at[f] >= 0
        /\ foods[f].remaining_slots = 1
        /\ ~foods[f].eaten

\* C38: at every tick boundary each active creature has a lineage node with
\* alive = True and no node with alive = False belongs to an active creature;
\* and alive never returns from False to True.
TickBoundary == ~frame.running
C38_ActiveAreAliveInTree ==
    /\ [](TickBoundary =>
             /\ \A id \in Range(creatures) : id \in DOMAIN nodes /\ nodes[id].alive
             /\ \A n \in DOMAIN nodes : ~nodes[n].alive => n \notin Range(creatures))
    /\ [][\A n \in DOMAIN nodes :
             ~nodes[n].alive => n \in DOMAIN nodes' /\ ~nodes'[n].alive]_vars
C38_Witness ==
    /\ TickBoundary
    /\ frame.count >= 2
    /\ creatures # <<>>
    /\ \E n \in DOMAIN nodes : ~nodes[n].alive /\ nodes[n].death_time < now
    /\ \E id \in Range(creatures) : id \in DOMAIN born_of

\* C39: every pack has at most 10 members, every member is an active creature
\* whose pack_id is the pack's id, and every active creature with a pack_id is
\* in the member list of that pack, after joins, formations, conversions and
\* deaths.
C39_PackMembership ==
    probe.op = "packs" =>
        /\ \A p \in DOMAIN probe.packs :
               /\ Len(probe.packs[p]) <= PACK_LIMIT
               /\ \A m \in Range(probe.packs[p]) :
                      m \in Range(probe.active) /\ probe.pop[m].pack_id = p
        /\ \A i \in Range(probe.active) :
               probe.pop[i].pack_id # None =>
                   /\ probe.pop[i].pack_id \in DOMAIN probe.packs
                   /\ i \in Range(probe.packs[probe.pop[i].pack_id])

\* C40: get_nearest_food(x, y, vision) agrees with the brute-force
\* find_nearest_food: it returns an available food at minimal distance among
\* those within vision, and None exactly when no available food is within
\* vision.
WithinVision == {i \in DOMAIN foods :
                    /\ ~foods[i].eaten /\ foods[i].remaining_slots > 0
                    /\ FoodD2(foods[i], probe.x, probe.y) <= probe.vision * probe.vision}
C40_NearestFoodAgrees ==
    probe.op = "nearest" =>
        /\ probe.nearest_food = 0 <=> WithinVision = {}
        /\ probe.nearest_food = 0 <=> probe.brute = 0
        /\ probe.nearest_food # 0 =>
               /\ probe.nearest_food \in WithinVision
               /\ \A i \in WithinVision :
                      FoodD2(foods[probe.nearest_food], probe.x, probe.y)
                          <= FoodD2(foods[i], probe.x, probe.y)
               /\ FoodD2(foods[probe.nearest_food], probe.x, probe.y)
                      = FoodD2(foods[probe.brute], probe.x, probe.y)
C40_Witness ==
    /\ probe.op = "nearest"
    /\ probe.nearest_food # 0
    /\ FoodCell(foods[probe.nearest_food]) # <<probe.x \div CELL_SIZE, probe.y \div CELL_SIZE>>
    /\ \E i \in WithinVision :
           FoodD2(foods[i], probe.x, probe.y)
               > FoodD2(foods[probe.nearest_food], probe.x, probe.y)
    /\ \E i \in DOMAIN foods : foods[i].eaten

====
